---- MODULE Spec2Model ----
(***************************************************************************)
(* Order-event aggregation and position validation of                     *)
(* binance_monitor_helper.                                                 *)
(*                                                                         *)
(* The model follows src/src/orders/aggregator.ts (OrderAggregator),       *)
(* src/src/orders/stateTracker.ts (OrderStateTracker),                     *)
(* src/src/orders/types.ts and the wiring of src/src/app/service.ts.       *)
(*                                                                         *)
(* handleEvent is an async function.  service.ts starts one invocation per *)
(* stream message and does not wait for it, so an invocation that is       *)
(* suspended at an await that depends on I/O (the account summary fetch,   *)
(* the notification handler's webhook POST) can be overtaken by other      *)
(* invocations and by timer callbacks.  Every action below is one run of   *)
(* the event loop: the code between two such awaits.                       *)
(*                                                                         *)
(* The account metrics provider, the alert limiter, the position          *)
(* validation service, the rule engine and the digest card have their own *)
(* specifications further down; each leaves the variables of the others   *)
(* as they were created.                                                   *)
(***************************************************************************)
EXTENDS Integers, Sequences, FiniteSets, Bags, TLC

VARIABLES
    now,                      \* Date.now(), in ms
    store,                    \* OrderStateTracker.store: context key -> AggregationContext
    timers,                   \* the pending setTimeout handles armed by ensureTimer
    processedEvents,          \* OrderAggregator.processedEvents: dedupe key -> timestamp
    finalizedContexts,        \* OrderAggregator.finalizedContexts: context key -> timestamp
    stopPresentationCache,    \* OrderAggregator.stopPresentationCache: clientOrderId -> presentation
    suppressedStopClientIds,  \* OrderAggregator.suppressedStopClientIds
    inflight,                 \* suspended invocations of handleEvent and of the timer callback
    notifications,            \* payloads handed to the notification handler, in call order
    summaryCalls,             \* the number of calls of metricsProvider.getSummary so far
    orders,                   \* the orders the exchange reports on in this run
    delivered,                \* history: the bag of the events passed to handleEvent so far
    lastFinal,                \* history: context key -> eventTime of the final-status event
                              \*          with which clearContext last cleared the context
    sinceFlush                \* history: context key -> the events delivered since the last
                              \*          timeout emission for the key completed

vars == <<now, store, timers, processedEvents, finalizedContexts, stopPresentationCache,
          suppressedStopClientIds, inflight, notifications, summaryCalls, orders,
          delivered, lastFinal, sinceFlush>>

(* BinanceAccountMetricsProvider (src/src/orders/accountMetricsProvider.ts) *)
VARIABLES
    providerCache,            \* BinanceAccountMetricsProvider.cache
    providerInflight,         \* BinanceAccountMetricsProvider.inflight: the refresh promise
    fetching,                 \* the calls of fetchAccountContext under way, each with the
                              \*   refresh promise it belongs to and the time it began
    awaiting,                 \* the getSummary calls suspended at "await this.inflight"
    returned                  \* the outcomes of the getSummary calls, in order of return

providerVars == <<providerCache, providerInflight, fetching, awaiting, returned>>

aggregatorVars == <<store, timers, processedEvents, finalizedContexts, stopPresentationCache,
                    suppressedStopClientIds, inflight, notifications, summaryCalls, orders,
                    delivered, lastFinal, sinceFlush>>

(* AlertLimiter (src/src/positions/alertLimiter.ts) *)
VARIABLES
    limiterStates,            \* AlertLimiter.states, in insertion order
    limiterEvents,            \* the events the last call of process returned
    limiterIssues,            \* the issues the last call of process was given
    limiterConfig,            \* minCooldownMinutes of the limiter, and the rule the
                              \*   issues take cooldownMinutes and notifyOnRecovery from
    processCalls              \* the number of calls of process so far

limiterVars == <<limiterStates, limiterEvents, limiterIssues, limiterConfig, processCalls>>

(* PositionValidationService (src/src/positions/positionValidationService.ts) *)
VARIABLES
    running,                  \* PositionValidationService.running
    runs,                     \* the calls of run suspended at an await
    sent,                     \* the cards passed to notifier.send, in call order
    runCalls,                 \* the number of calls of run so far
    lastOutcome               \* how the call of run that ended last ended: "skipped",
                              \*   "completed", or the await whose error run caught

validationVars == <<running, runs, sent, runCalls, lastOutcome>>

(* PositionRuleEngine (positions/ruleEngine.ts) with the configuration of  *)
(* config/positionRules.ts, and the digest card of                         *)
(* notifications/positionCardBuilder.ts                                    *)
VARIABLES
    positionRulesConfig,      \* the module constant positionRulesConfig, read at load time
    accountContext,           \* the AccountContext the caller passes to evaluate
    symbolMetrics,            \* the symbolMetrics map the caller passes to evaluate
    engineIssues,             \* the issues the last call of evaluate returned
    evaluations,              \* the number of calls of evaluate so far
    digestEvents,             \* the alert events a digest card is built from
    digestCards               \* the digest cards built so far

engineVars == <<positionRulesConfig, accountContext, symbolMetrics, engineIssues, evaluations>>

digestVars == <<digestEvents, digestCards>>

(* SymbolMetricsFetcher (src/src/positions/marketDataFetcher.ts) *)
VARIABLES
    fetcherConcurrency,       \* SymbolMetricsFetcher.concurrency
    oiCache,                  \* SymbolMetricsFetcher.oiCache: symbol -> expiresAt
    tokenCache,               \* SymbolMetricsFetcher.tokenCache: symbol -> expiresAt
    oiBatch,                  \* the run of runWithConcurrency of fetchOpenInterestBatch
    tokenBatch,               \* the run of runWithConcurrency of fetchTokenInfoBatch
    fetchCalls                \* the number of calls of fetchMetrics so far

fetcherVars == <<fetcherConcurrency, oiCache, tokenCache, oiBatch, tokenBatch, fetchCalls>>

(* OrderNotificationService (src/src/orders/eventMapper.ts, lines 64-188) *)
VARIABLES
    dedupCache,               \* OrderNotificationService.dedupCache: dedup key -> timestamp
    lifecycleSent,            \* the events whose card lifecycleNotifier.send was given
    fillSent,                 \* the events whose card fillNotifier.send was given
    handled,                  \* history: the bag of the events passed to handle so far
    firstHandledAt            \* history: dedup key -> the time handle first got an event
                              \*          with the key

dispatcherVars == <<dedupCache, lifecycleSent, fillSent, handled, firstHandledAt>>

(* The process of src/src/app/service.ts *)
VARIABLES
    phase                     \* "running", "stopping" once a shutdown signal has arrived
                              \*   and listenKeyClient.destroy is awaited, "exited"

shutdownVars == <<phase>>

(* the state of the components an order-stream step does not touch *)
otherVars == <<providerVars, limiterVars, validationVars, engineVars, digestVars,
               fetcherVars, dispatcherVars, shutdownVars>>

-----------------------------------------------------------------------------
(* Program constants *)

PROCESSED_EVENT_TTL_MS == 60000
FINALIZED_CONTEXT_TTL_MS == 60000
aggregationWindowMs == 10000
DEFAULT_CACHE_TTL_MS == 2000
QuoteFractionDigits == 8 \* cumulativeQuote.toFixed(8)
FETCHER_CACHE_TTL_MS == 180000 \* DEFAULT_CACHE_TTL_MS of marketDataFetcher.ts
DEFAULT_CONCURRENCY == 5
dedupTtlMs == 60000
dedupCacheLimit == 2000 \* prune clears a dedup cache of more entries

(* Bounds of the model *)

TickMs == 30000          \* the clock advances in steps of TickMs
MaxNow == 90000          \* ... up to MaxNow
MaxDeliveries == 3       \* events passed to handleEvent in one behaviour
MaxInflight == 2         \* invocations suspended at an await at the same time
MaxPartial == 2          \* PARTIALLY_FILLED events carry cumulativeQuantity 1..MaxPartial
Price == 5               \* the price of every fill
AmountDigits == 9        \* a product of price and quantity counts units of 10^-AmountDigits
Profit == 2              \* the realized profit (raw.o.rp) of every fill
ProviderTickMs == 1000   \* the clock of the metrics provider's runs advances in steps of ...
ProviderMaxNow == 4000   \* ... up to ProviderMaxNow
MaxCalls == 4            \* getSummary calls in one behaviour
Balance == 100           \* the finite totalMarginBalance an account fetch reports
LimiterTickMs == 30000   \* the clock of the limiter's runs advances in steps of ...
LimiterMaxNow == 120000  \* ... up to LimiterMaxNow
MaxProcessCalls == 3     \* calls of AlertLimiter.process in one behaviour
MaxIssues == 2           \* issues given to one call of process
MaxCooldownMinutes == 1  \* rules have cooldownMinutes 0..MaxCooldownMinutes
MaxFloorMinutes == 2     \* a limiter has minCooldownMinutes 0 or MaxFloorMinutes
MaxRunCalls == 3         \* calls of PositionValidationService.run in one behaviour
MaxSnapshots == 2        \* positions in one account context
MaxEvaluations == 2      \* calls of PositionRuleEngine.evaluate in one behaviour
MaxDigestEvents == 3     \* alert events in one digest card
MaxSymbols == 6          \* symbols of the positions given to one call of fetchMetrics
MaxFetchCalls == 2       \* calls of fetchMetrics in one behaviour
FetcherTickMs == 90000   \* the clock of the fetcher's runs advances in steps of ...
FetcherMaxNow == 270000  \* ... up to FetcherMaxNow
MaxHandled == 4          \* events passed to OrderNotificationService.handle in one behaviour
DispatcherTickMs == 30000  \* the clock of the dispatcher's runs advances in steps of ...
DispatcherMaxNow == 120000 \* ... up to DispatcherMaxNow

OrigQty == MaxPartial + 1

-----------------------------------------------------------------------------
(* Maps (JavaScript Map) as functions *)

Put(m, k, v) == [x \in (DOMAIN m) \cup {k} |-> IF x = k THEN v ELSE m[x]]

Remove(m, k) == [x \in (DOMAIN m) \ {k} |-> m[x]]

EmptyMap == [x \in {} |-> 0]

NoTimer == 0

NoClientId == <<>>

-----------------------------------------------------------------------------
(* Client order ids are sequences of characters, so that the prefix tests  *)
(* of resolveOrderPresentation are computed, not assumed.                  *)

Symbol == "BTCUSDT"

GeneralClientId == <<"o", "r", "d">>

StopClientId == <<"T", "P", "-", "1">>

ExecutionClientId == <<"E", "X">>

(* a time-window stop order, as in 'TW_1m' *)
TimeWindowClientId == <<"T", "W", "_", "1", "m">>

ToUpperChar(c) ==
    CASE c = "o" -> "O"
      [] c = "r" -> "R"
      [] c = "d" -> "D"
      [] c = "t" -> "T"
      [] c = "p" -> "P"
      [] c = "s" -> "S"
      [] c = "l" -> "L"
      [] c = "f" -> "F"
      [] c = "w" -> "W"
      [] c = "m" -> "M"
      [] OTHER -> c

ToUpperCase(s) == [i \in 1..Len(s) |-> ToUpperChar(s[i])]

RECURSIVE TrimStart(_)
TrimStart(s) == IF s # <<>> /\ Head(s) = " " THEN TrimStart(Tail(s)) ELSE s

RECURSIVE TrimEnd(_)
TrimEnd(s) == IF s # <<>> /\ s[Len(s)] = " " THEN TrimEnd(SubSeq(s, 1, Len(s) - 1)) ELSE s

Trim(s) == TrimEnd(TrimStart(s))

StartsWith(s, p) == Len(s) >= Len(p) /\ SubSeq(s, 1, Len(p)) = p

(* source: "TAKE_PROFIT" is 止盈, "STOP_LOSS" is 止损, "TRAILING_STOP" is     *)
(* 追踪止损, "OTHER" is 其他; titleSuffix is given by its classification.     *)
ResolveOrderPresentation(clientOrderId) ==
    LET normalized == ToUpperCase(Trim(clientOrderId)) IN
    IF StartsWith(normalized, <<"F", "T">>)
    THEN [source |-> "TRAILING_STOP", classification |-> "FT"]
    ELSE IF StartsWith(normalized, <<"T", "P", "1">>)
    THEN [source |-> "TAKE_PROFIT", classification |-> "TP1"]
    ELSE IF StartsWith(normalized, <<"T", "P", "2">>)
    THEN [source |-> "TAKE_PROFIT", classification |-> "TP2"]
    ELSE IF StartsWith(normalized, <<"T", "P">>)
    THEN [source |-> "TAKE_PROFIT", classification |-> "TP"]
    ELSE IF StartsWith(normalized, <<"S", "L">>)
    THEN [source |-> "STOP_LOSS", classification |-> "SL"]
    ELSE [source |-> "OTHER", classification |-> "GENERAL"]

(* classifyOrder: the client order id is that of a time-window stop order *)
IsTimeWindowClientId(clientOrderId) ==
    StartsWith(ToUpperCase(Trim(clientOrderId)), <<"T", "W", "_">>)

AggregationKey(event) == <<event.symbol, event.orderId, event.clientOrderId>>

ContextKey(context) == <<context.symbol, context.orderId, context.clientOrderId>>

IsFinalStatus(status) == status \in {"FILLED", "CANCELED", "EXPIRED", "REJECTED"}

-----------------------------------------------------------------------------
(* OrderAggregator: event identity and the two TTL maps *)

BuildEventKey(event) ==
    <<event.symbol, event.orderId, event.clientOrderId, event.status, event.execType,
      event.tradeTime, event.lastQuantity, event.cumulativeQuantity>>

(* hasProcessedEvent returns HasProcessedEvent and leaves the map as       *)
(* ProcessedEventsAfterCheck (an expired entry is deleted by the lookup).  *)
HasProcessedEvent(pe, key) ==
    key \in DOMAIN pe /\ ~(now - pe[key] > PROCESSED_EVENT_TTL_MS)

ProcessedEventsAfterCheck(pe, key) ==
    IF key \in DOMAIN pe /\ now - pe[key] > PROCESSED_EVENT_TTL_MS THEN Remove(pe, key) ELSE pe

PruneProcessedEvents(pe) ==
    LET threshold == now - PROCESSED_EVENT_TTL_MS
        kept == {k \in DOMAIN pe : ~(pe[k] < threshold)}
    IN [k \in kept |-> pe[k]]

MarkEventProcessed(pe, key, timestamp) == PruneProcessedEvents(Put(pe, key, timestamp))

(* faulty variant: every context key counts as finalized *)
AlwaysFinalized(fc, key) == TRUE

(* faulty variant: an entry expires when it is exactly the TTL old *)
ExpiredAtTtl(fc, key) ==
    key \in DOMAIN fc /\ ~(now - fc[key] >= FINALIZED_CONTEXT_TTL_MS)

HasFinalizedContext(fc, key) ==
    key \in DOMAIN fc /\ ~(now - fc[key] > FINALIZED_CONTEXT_TTL_MS)

FinalizedContextsAfterCheck(fc, key) ==
    IF key \in DOMAIN fc /\ now - fc[key] > FINALIZED_CONTEXT_TTL_MS THEN Remove(fc, key) ELSE fc

PruneFinalizedContexts(fc) ==
    LET threshold == now - FINALIZED_CONTEXT_TTL_MS
        kept == {k \in DOMAIN fc : ~(fc[k] < threshold)}
    IN [k \in kept |-> fc[k]]

MarkContextFinalized(fc, key, timestamp) == PruneFinalizedContexts(Put(fc, key, timestamp))

-----------------------------------------------------------------------------
(* OrderAggregator.resolvePresentation: the presentation, and the cache it leaves *)

ResolvePresentation(cache, event) ==
    LET direct == ResolveOrderPresentation(event.clientOrderId) IN
    IF direct.source # "OTHER" THEN direct
    ELSE IF event.originalClientOrderId # NoClientId
            /\ event.originalClientOrderId \in DOMAIN cache
    THEN cache[event.originalClientOrderId]
    ELSE direct

CacheAfterResolve(cache, event) ==
    LET direct == ResolveOrderPresentation(event.clientOrderId) IN
    IF direct.source # "OTHER" THEN Put(cache, event.clientOrderId, direct)
    ELSE IF event.originalClientOrderId # NoClientId
            /\ event.originalClientOrderId \in DOMAIN cache
    THEN Put(cache, event.clientOrderId, cache[event.originalClientOrderId])
    ELSE cache

-----------------------------------------------------------------------------
(* OrderStateTracker *)

RECURSIVE Pow10(_)
Pow10(n) == IF n <= 0 THEN 1 ELSE 10 * Pow10(n - 1)

(* Big.toFixed(digits) of an amount that is not negative: the amount       *)
(* rounded half up to a multiple of 10^-digits                             *)
ToFixed(amount, digits) ==
    LET unit == Pow10(AmountDigits - digits)
    IN ((amount + unit \div 2) \div unit) * unit

QuoteOf(event) ==
    IF event.cumulativeQuantity > 0
    THEN IF event.averagePrice > 0 THEN event.averagePrice * event.cumulativeQuantity
         ELSE IF event.lastPrice > 0 THEN event.lastPrice * event.cumulativeQuantity
         ELSE IF event.orderPrice > 0 THEN event.orderPrice * event.cumulativeQuantity
         ELSE 0
    ELSE 0

(* faulty variant: the quantity of the last fill is stored as cumulative *)
TrackerUpdateLastQuantity(st, event, presentation) ==
    LET key == AggregationKey(event)
        baseContext ==
            IF key \in DOMAIN st THEN st[key]
            ELSE [symbol |-> event.symbol,
                  orderId |-> event.orderId,
                  clientOrderId |-> event.clientOrderId,
                  orderType |-> event.orderType,
                  source |-> presentation.source,
                  presentation |-> presentation,
                  originalQuantity |-> event.originalQuantity,
                  cumulativeQuantity |-> 0,
                  cumulativeQuote |-> 0,
                  lastStatus |-> event.status,
                  lastEventTime |-> event.eventTime,
                  timer |-> NoTimer,
                  scenarioHint |-> "",
                  events |-> <<>>]
    IN [baseContext EXCEPT
            !.orderType = event.orderType,
            !.source = presentation.source,
            !.presentation = presentation,
            !.cumulativeQuantity = event.lastQuantity,
            !.cumulativeQuote = ToFixed(QuoteOf(event), QuoteFractionDigits),
            !.lastStatus = event.status,
            !.lastEventTime = event.eventTime,
            !.events = Append(baseContext.events, event)]

(* update: the context stored and returned for event *)
TrackerUpdate(st, event, presentation) ==
    LET key == AggregationKey(event)
        baseContext ==
            IF key \in DOMAIN st THEN st[key]
            ELSE [symbol |-> event.symbol,
                  orderId |-> event.orderId,
                  clientOrderId |-> event.clientOrderId,
                  orderType |-> event.orderType,
                  source |-> presentation.source,
                  presentation |-> presentation,
                  originalQuantity |-> event.originalQuantity,
                  cumulativeQuantity |-> 0,
                  cumulativeQuote |-> 0,
                  lastStatus |-> event.status,
                  lastEventTime |-> event.eventTime,
                  timer |-> NoTimer,
                  scenarioHint |-> "",
                  events |-> <<>>]
    IN [baseContext EXCEPT
            !.orderType = event.orderType,
            !.source = presentation.source,
            !.presentation = presentation,
            !.cumulativeQuantity = event.cumulativeQuantity,
            !.cumulativeQuote = ToFixed(QuoteOf(event), QuoteFractionDigits),
            !.lastStatus = event.status,
            !.lastEventTime = event.eventTime,
            !.events = Append(baseContext.events, event)]

(* faulty variant: clearTimeout is never called *)
KeepTimeout(tm, handle) == tm

ClearTimeout(tm, handle) == {t \in tm : t.id # handle}

(* delete: the pending timer of the stored context is cleared with it *)
TrackerDeleteTimers(st, tm, key) ==
    IF key \in DOMAIN st THEN ClearTimeout(tm, st[key].timer) ELSE tm

TrackerDelete(st, key) == Remove(st, key)

TrackerSetContext(st, context) == Put(st, ContextKey(context), context)

-----------------------------------------------------------------------------
(* OrderAggregator.  The operators below take and return the aggregator's  *)
(* state as a record S with one field per variable they may change.        *)

Scenario ==
    [SLTP_NEW |-> "SLTP_NEW",
     SLTP_CANCELED |-> "SLTP_CANCELED",
     SLTP_FILLED |-> "SLTP_FILLED",
     SLTP_PARTIAL_COMPLETED |-> "SLTP_PARTIAL_COMPLETED",
     SLTP_PARTIAL_TIMEOUT |-> "SLTP_PARTIAL_TIMEOUT",
     SLTP_PARTIAL_CANCELED |-> "SLTP_PARTIAL_CANCELED",
     GENERAL_SINGLE |-> "GENERAL_SINGLE",
     GENERAL_AGGREGATED |-> "GENERAL_AGGREGATED",
     GENERAL_TIMEOUT |-> "GENERAL_TIMEOUT",
     GENERAL_PARTIAL_CANCELED |-> "GENERAL_PARTIAL_CANCELED"]

(* EmitOptions.stateLabel: "CREATED" is 创建, "CANCELLED" is 取消,            *)
(* "PARTIAL" is 部分成交, "FILLED" is 成交.                                   *)
EmitOptions(stateLabel, includeCumulative) ==
    [stateLabel |-> stateLabel, includeCumulative |-> includeCumulative]

State ==
    [store |-> store,
     timers |-> timers,
     processedEvents |-> processedEvents,
     finalizedContexts |-> finalizedContexts,
     stopPresentationCache |-> stopPresentationCache,
     suppressedStopClientIds |-> suppressedStopClientIds,
     inflight |-> inflight,
     notifications |-> notifications,
     summaryCalls |-> summaryCalls,
     lastFinal |-> lastFinal]

LastEvent(context) == context.events[Len(context.events)]

(* faulty variant: every context counts as partially filled *)
AnyPartialFill(context) == TRUE

(* faulty variant: only the latest event is examined *)
LastIsPartialFill(context) == LastEvent(context).status = "PARTIALLY_FILLED"

HadPartialFill(context) ==
    \E i \in 1..Len(context.events) : context.events[i].status = "PARTIALLY_FILLED"

ClearContext(S, event) ==
    LET key == AggregationKey(event)
        cache1 == Remove(S.stopPresentationCache, event.clientOrderId)
    IN [S EXCEPT
            !.timers = TrackerDeleteTimers(S.store, S.timers, key),
            !.store = TrackerDelete(S.store, key),
            !.stopPresentationCache =
                IF event.originalClientOrderId # NoClientId
                THEN Remove(cache1, event.originalClientOrderId)
                ELSE cache1,
            !.suppressedStopClientIds = @ \ {event.clientOrderId},
            !.finalizedContexts =
                IF IsFinalStatus(event.status)
                THEN MarkContextFinalized(@, key, event.eventTime)
                ELSE @,
            !.lastFinal =
                IF IsFinalStatus(event.status) THEN Put(@, key, event.eventTime) ELSE @]

(* faulty variant: ensureTimer arms a deadline without clearing the old one *)
EnsureTimerKeepingOld(S, context, scenario, options, handle) ==
    [S EXCEPT
        !.timers = @ \cup {[id |-> handle,
                            key |-> ContextKey(context),
                            scenario |-> scenario,
                            options |-> options,
                            deadline |-> now + aggregationWindowMs]},
        !.store = TrackerSetContext(@, [context EXCEPT !.timer = handle,
                                                       !.scenarioHint = scenario])]

(* ensureTimer; handle names the new setTimeout handle *)
EnsureTimer(S, context, scenario, options, handle) ==
    [S EXCEPT
        !.timers = ClearTimeout(@, context.timer)
                     \cup {[id |-> handle,
                            key |-> ContextKey(context),
                            scenario |-> scenario,
                            options |-> options,
                            deadline |-> now + aggregationWindowMs]},
        !.store = TrackerSetContext(@, [context EXCEPT !.timer = handle,
                                                       !.scenarioHint = scenario])]

ResolveCumulativeQuote(event) == QuoteOf(event)

(* faulty variant: the quote of the last fill alone *)
QuoteOfLastFill(context) == LastEvent(context).lastQuantity * LastEvent(context).lastPrice

(* the cumulativeQuote emitNotification works with *)
CumulativeQuote(context) ==
    IF context.cumulativeQuote > 0 THEN context.cumulativeQuote
    ELSE ResolveCumulativeQuote(LastEvent(context))

ShouldProvideAggregates(context, options) ==
    LET latestEvent == LastEvent(context)
        cumulativeQuote == CumulativeQuote(context)
    IN options.includeCumulative /\ latestEvent.cumulativeQuantity > 0 /\ cumulativeQuote > 0

NoQuote == -1            \* cumulativeQuote: undefined

(* sumRealizedPnl: the sum of raw.o.rp over the events of the context *)
RECURSIVE SumRealizedPnlOf(_)
SumRealizedPnlOf(events) ==
    IF events = <<>> THEN 0
    ELSE Head(events).realizedProfit + SumRealizedPnlOf(Tail(events))

SumRealizedPnl(context) == SumRealizedPnlOf(context.events)

(* the realized profit of the last event only *)
RealizedPnlOfLast(context) == LastEvent(context).realizedProfit

Payload(context, scenario, options) ==
    [scenario |-> scenario,
     key |-> AggregationKey(LastEvent(context)),
     source |-> context.source,
     stateLabel |-> options.stateLabel,
     status |-> LastEvent(context).status,
     rawEvents |-> context.events,
     cumulativeQuote |->
         IF ShouldProvideAggregates(context, options)
         THEN ToFixed(CumulativeQuote(context), QuoteFractionDigits)
         ELSE NoQuote,
     tradePnl |->
         IF ShouldProvideAggregates(context, options)
         THEN SumRealizedPnl(context)
         ELSE NoQuote]

(* The invocation act = [id, kind, event, clear] suspended inside          *)
(* emitNotification(context, scenario, options).                           *)
Suspended(act, context, scenario, options, pc) ==
    [id |-> act.id, kind |-> act.kind, event |-> act.event, clear |-> act.clear,
     context |-> context, scenario |-> scenario, options |-> options, pc |-> pc]

(* faulty variant: the account summary is asked for whatever the options *)
EmitNotificationAlwaysAsking(S, act, context, scenario, options) ==
    [S EXCEPT !.summaryCalls = @ + 1,
              !.inflight = @ \cup {Suspended(act, context, scenario, options, "summary")}]

(* emitNotification up to its first await that depends on I/O: the account *)
(* summary when aggregates are due, else the notification handler, which   *)
(* has then been called with the payload.                                  *)
EmitNotification(S, act, context, scenario, options) ==
    IF ShouldProvideAggregates(context, options)
    THEN [S EXCEPT !.summaryCalls = @ + 1,
                   !.inflight = @ \cup {Suspended(act, context, scenario, options, "summary")}]
    ELSE [S EXCEPT !.notifications = Append(@, Payload(context, scenario, options)),
                   !.inflight = @ \cup {Suspended(act, context, scenario, options, "handler")}]

Activation(id, kind, event, clear) == [id |-> id, kind |-> kind, event |-> event, clear |-> clear]

Done(S) == [state |-> S, suspended |-> FALSE]

Awaiting(S) == [state |-> S, suspended |-> TRUE]

(* handleStopLikeOrder up to its first await on I/O; id names the invocation *)
HandleStopLikeOrder(S, event, context, id) ==
    LET originalClientId == event.originalClientOrderId
        isExecutionOrder ==
            originalClientId # NoClientId /\ originalClientId # event.clientOrderId
        S1 == IF isExecutionOrder
              THEN [S EXCEPT !.suppressedStopClientIds = @ \cup {originalClientId}]
              ELSE S
    IN
    IF ~isExecutionOrder /\ event.clientOrderId \in S.suppressedStopClientIds
       /\ event.status = "FILLED"
    THEN Done(ClearContext(
             [S EXCEPT !.suppressedStopClientIds = @ \ {event.clientOrderId}], event))
    ELSE CASE event.status = "NEW" ->
                 IF event.orderType \in {"MARKET", "LIMIT"}
                 THEN Done(S1)
                 ELSE Awaiting(EmitNotification(S1, Activation(id, "event", event, FALSE),
                          context, Scenario.SLTP_NEW, EmitOptions("CREATED", FALSE)))
           [] event.status = "CANCELED" ->
                 LET hadPartialFill == HadPartialFill(context)
                     scenario == IF hadPartialFill THEN Scenario.SLTP_PARTIAL_CANCELED
                                 ELSE Scenario.SLTP_CANCELED
                     S2 == [S1 EXCEPT !.timers = ClearTimeout(@, context.timer)]
                 IN Awaiting(EmitNotification(S2, Activation(id, "event", event, TRUE),
                        context, scenario, EmitOptions("CANCELLED", hadPartialFill)))
           [] event.status = "PARTIALLY_FILLED" ->
                 Done(EnsureTimer(S1, context, Scenario.SLTP_PARTIAL_TIMEOUT,
                                  EmitOptions("PARTIAL", TRUE), id))
           [] event.status = "FILLED" ->
                 LET S2 == [S1 EXCEPT !.timers = ClearTimeout(@, context.timer)]
                     hadPartial == HadPartialFill(context)
                     scenario == IF hadPartial THEN Scenario.SLTP_PARTIAL_COMPLETED
                                 ELSE Scenario.SLTP_FILLED
                 IN Awaiting(EmitNotification(S2, Activation(id, "event", event, TRUE),
                        context, scenario, EmitOptions("FILLED", TRUE)))
           [] OTHER -> Done(S1)

(* handleGeneralOrder up to its first await on I/O *)
HandleGeneralOrder(S, event, context, id) ==
    CASE event.status = "PARTIALLY_FILLED" ->
             Done(EnsureTimer(S, context, Scenario.GENERAL_TIMEOUT,
                              EmitOptions("PARTIAL", TRUE), id))
      [] event.status = "FILLED" ->
             LET hadPartial == HadPartialFill(context)
                 S2 == [S EXCEPT !.timers = ClearTimeout(@, context.timer)]
                 scenario == IF hadPartial THEN Scenario.GENERAL_AGGREGATED
                             ELSE Scenario.GENERAL_SINGLE
             IN Awaiting(EmitNotification(S2, Activation(id, "event", event, TRUE),
                    context, scenario, EmitOptions("FILLED", TRUE)))
      [] event.status = "CANCELED" ->
             LET hadPartial == HadPartialFill(context) IN
             IF ~hadPartial
             THEN Done(ClearContext(S, event))
             ELSE LET S2 == [S EXCEPT !.timers = ClearTimeout(@, context.timer)] IN
                  Awaiting(EmitNotification(S2, Activation(id, "event", event, TRUE),
                      context, Scenario.GENERAL_PARTIAL_CANCELED, EmitOptions("CANCELLED", TRUE)))
      [] OTHER -> Done(S)

IsStopLikeSource(source) == source \in {"TAKE_PROFIT", "STOP_LOSS", "TRAILING_STOP"}

(* faulty variant: the NEW event of any order is announced as the creation *)
(* of a stop order, and no other event is handled                          *)
HandleEventAnnouncingNew(S, event, id) ==
    IF event.status # "NEW"
    THEN S
    ELSE
    LET presentation == ResolvePresentation(S.stopPresentationCache, event)
        context == TrackerUpdate(S.store, event, presentation)
        S2 == [S EXCEPT !.stopPresentationCache = CacheAfterResolve(@, event),
                        !.store = Put(@, AggregationKey(event), context)]
    IN EmitNotification(S2, Activation(id, "event", event, FALSE),
                        context, Scenario.SLTP_NEW, EmitOptions("CREATED", FALSE))

(* faulty variant: the NEW event of a general order is not set aside *)
HandleEventKeepingNew(S, event, id) ==
    LET dedupeKey == BuildEventKey(event) IN
    IF HasProcessedEvent(S.processedEvents, dedupeKey)
    THEN S
    ELSE
    LET S1 == [S EXCEPT !.processedEvents = ProcessedEventsAfterCheck(@, dedupeKey),
                        !.stopPresentationCache = CacheAfterResolve(@, event)]
        presentation == ResolvePresentation(S.stopPresentationCache, event)
        source == presentation.source
        contextKey == AggregationKey(event)
    IN
    IF IsFinalStatus(event.status) /\ HasFinalizedContext(S1.finalizedContexts, contextKey)
    THEN [S1 EXCEPT !.processedEvents = MarkEventProcessed(@, dedupeKey, event.eventTime)]
    ELSE
    LET context == TrackerUpdate(S1.store, event, presentation)
        S2 == [S1 EXCEPT
                  !.finalizedContexts =
                      IF IsFinalStatus(event.status)
                      THEN FinalizedContextsAfterCheck(@, contextKey) ELSE @,
                  !.store = Put(@, contextKey, context)]
        r == IF IsStopLikeSource(source)
             THEN HandleStopLikeOrder(S2, event, context, id)
             ELSE HandleGeneralOrder(S2, event, context, id)
    IN IF r.suspended
       THEN r.state
       ELSE [r.state EXCEPT !.processedEvents = MarkEventProcessed(@, dedupeKey, event.eventTime)]

(* handleEvent up to its first await on I/O, or to its end *)
HandleEvent(S, event, id) ==
    LET dedupeKey == BuildEventKey(event) IN
    IF HasProcessedEvent(S.processedEvents, dedupeKey)
    THEN S
    ELSE
    LET S1 == [S EXCEPT !.processedEvents = ProcessedEventsAfterCheck(@, dedupeKey),
                        !.stopPresentationCache = CacheAfterResolve(@, event)]
        presentation == ResolvePresentation(S.stopPresentationCache, event)
        source == presentation.source
        contextKey == AggregationKey(event)
    IN
    IF source = "OTHER" /\ event.status = "NEW"
    THEN [S1 EXCEPT !.processedEvents = MarkEventProcessed(@, dedupeKey, event.eventTime)]
    ELSE IF IsFinalStatus(event.status) /\ HasFinalizedContext(S1.finalizedContexts, contextKey)
    THEN [S1 EXCEPT !.processedEvents = MarkEventProcessed(@, dedupeKey, event.eventTime)]
    ELSE
    LET context == TrackerUpdate(S1.store, event, presentation)
        S2 == [S1 EXCEPT
                  !.finalizedContexts =
                      IF IsFinalStatus(event.status)
                      THEN FinalizedContextsAfterCheck(@, contextKey) ELSE @,
                  !.store = Put(@, contextKey, context)]
        r == IF IsStopLikeSource(source)
             THEN HandleStopLikeOrder(S2, event, context, id)
             ELSE HandleGeneralOrder(S2, event, context, id)
    IN IF r.suspended
       THEN r.state
       ELSE [r.state EXCEPT !.processedEvents = MarkEventProcessed(@, dedupeKey, event.eventTime)]

(* The rest of handleEvent once the notification handler has resolved:    *)
(* the caller of emitNotification clears the context, handleEvent marks   *)
(* the event processed.                                                    *)
FinishEvent(S, act) ==
    LET S1 == IF act.clear THEN ClearContext(S, act.event) ELSE S IN
    [S1 EXCEPT !.processedEvents =
                   MarkEventProcessed(@, BuildEventKey(act.event), act.event.eventTime)]

(* ... and once it has rejected: handleEvent's catch *)
FailEvent(S, act) ==
    [S EXCEPT !.processedEvents = Remove(@, BuildEventKey(act.event))]

(* The timer callback of ensureTimer up to its first await on I/O *)
TimerCallback(S, timer) ==
    IF timer.key \notin DOMAIN S.store
    THEN S
    ELSE LET latest == S.store[timer.key] IN
         EmitNotification(S, Activation(timer.id, "timer", LastEvent(latest), TRUE),
                          latest, timer.scenario, timer.options)

(* faulty variant: the callback does not clear the context *)
FinishTimerKeepingContext(S, act) == S

(* ... and its rest once the notification handler has resolved *)
FinishTimer(S, act) == ClearContext(S, act.event)

-----------------------------------------------------------------------------
(* BinanceAccountMetricsProvider *)

NoPromise == 0

NotFinite == -1          \* a totalMarginBalance that is NaN or infinite
NullFunds == -2          \* totalFunds: null

Balances == {Balance, NotFinite}

(* the value null of type AccountSummary | null *)
NullSummary == [isNull |-> TRUE, totalFunds |-> NullFunds, fetchedAt |-> 0]

(* this.cache undefined *)
NoCache == [present |-> FALSE, summary |-> NullSummary, cachedAt |-> 0]

cacheTtlMs == DEFAULT_CACHE_TTL_MS

Provider ==
    [cache |-> providerCache, inflight |-> providerInflight, fetching |-> fetching,
     awaiting |-> awaiting, returned |-> returned]

(* a promise that nothing refers to *)
FreshPromise(P) ==
    LET used == {f.promise : f \in P.fetching} \cup {a.promise : a \in P.awaiting}
                \cup {P.inflight}
    IN CHOOSE i \in 1..(Cardinality(used) + 1) :
           i \notin used /\ \A j \in 1..(i - 1) : j \in used

(* what a getSummary call came to, and when *)
Outcome(caller, kind, value, t) ==
    [caller |-> caller, kind |-> kind, value |-> value, at |-> t]

(* refresh up to its await: fetchAccountContext is called at time t and    *)
(* takes t as the fetchedAt of its result; p is the promise refresh returns *)
Refresh(P, p, t) == [P EXCEPT !.fetching = @ \cup {[promise |-> p, fetchedAt |-> t]}]

(* faulty variant: getSummary starts a refresh whether or not one is in flight *)
GetSummaryUnguarded(P, caller, t) ==
    IF P.cache.present /\ t - P.cache.cachedAt < cacheTtlMs
    THEN [P EXCEPT !.returned = Append(@, Outcome(caller, "return", P.cache.summary, t))]
    ELSE LET p == FreshPromise(P)
             P1 == [Refresh(P, p, t) EXCEPT !.inflight = p]
         IN [P1 EXCEPT !.awaiting = @ \cup {[caller |-> caller, promise |-> P1.inflight]}]

(* getSummary, called at time t, up to its await or to its return *)
GetSummary(P, caller, t) ==
    IF P.cache.present /\ t - P.cache.cachedAt < cacheTtlMs
    THEN [P EXCEPT !.returned = Append(@, Outcome(caller, "return", P.cache.summary, t))]
    ELSE LET p == FreshPromise(P)
             P1 == IF P.inflight = NoPromise
                   THEN [Refresh(P, p, t) EXCEPT !.inflight = p]
                   ELSE P
         IN [P1 EXCEPT !.awaiting = @ \cup {[caller |-> caller, promise |-> P1.inflight]}]

(* The rest of the getSummary calls that await promise p, once p has       *)
(* settled with kind ("return": fulfilled, "throw": rejected) and value:   *)
(* the reactions of one promise run one after the other, in the order in   *)
(* which the calls began to wait; each runs the finally block and returns. *)
RECURSIVE Resume(_, _, _, _, _)
Resume(P, p, kind, value, t) ==
    LET waiting == {a \in P.awaiting : a.promise = p} IN
    IF waiting = {} THEN P
    ELSE LET a == CHOOSE x \in waiting : \A y \in waiting : x.caller <= y.caller IN
         Resume([P EXCEPT !.awaiting = @ \ {a},
                          !.inflight = NoPromise,
                          !.returned = Append(@, Outcome(a.caller, kind, value, t))],
                p, kind, value, t)

(* the summary refresh builds from the account context *)
SummaryOf(context) ==
    [isNull |-> FALSE,
     totalFunds |-> IF context.totalMarginBalance # NotFinite
                    THEN context.totalMarginBalance ELSE NullFunds,
     fetchedAt |-> context.fetchedAt]

(* the rest of refresh p once its fetchAccountContext has resolved, at time t *)
RefreshResolved(P, p, context, t) ==
    LET summary == SummaryOf(context)
        P1 == [P EXCEPT !.fetching = {f \in @ : f.promise # p},
                        !.cache = [present |-> TRUE, summary |-> summary, cachedAt |-> t]]
    IN Resume(P1, p, "return", summary, t)

(* faulty variant of the catch block: it forgets the cache *)
RefreshRejectedForgetful(P, p, t) ==
    Resume([P EXCEPT !.fetching = {f \in @ : f.promise # p}], p, "return", NullSummary, t)

(* ... and once it has rejected, at time t: the catch block *)
RefreshRejected(P, p, t) ==
    LET value == IF P.cache.present THEN P.cache.summary ELSE NullSummary
    IN Resume([P EXCEPT !.fetching = {f \in @ : f.promise # p}], p, "return", value, t)

ProviderInit ==
    /\ providerCache = NoCache
    /\ providerInflight = NoPromise
    /\ fetching = {}
    /\ awaiting = {}
    /\ returned = <<>>

-----------------------------------------------------------------------------
(* AlertLimiter *)

NullTime == -1           \* lastSentAt: null

Max(a, b) == IF a >= b THEN a ELSE b

Assets == {"ETH", "BTC"}

(* two contracts of one base asset: one position each, same direction *)
Quotes == {"USDT", "USDC"}

(* the leverage_limit issue the rule engine raises for the long position  *)
(* in asset+quote, under the default rule                                 *)
IssueOf(config, asset, quote) ==
    [rule |-> "leverage_limit", baseAsset |-> asset, direction |-> "long",
     severity |-> "warning",
     symbol |-> <<asset, quote>>,
     cooldownMinutes |-> config.cooldownMinutes,
     notifyOnRecovery |-> config.notifyRecovery]

Issues(config) == {IssueOf(config, asset, quote) : asset \in Assets, quote \in Quotes}

(* the issue lists of one evaluation: no issue twice *)
IssueLists(config) ==
    {list \in UNION {[1..n -> Issues(config)] : n \in 0..MaxIssues} :
        \A i, j \in DOMAIN list : i # j => list[i] # list[j]}

LimiterConfigs ==
    [minCooldownMinutes : {0, MaxFloorMinutes},
     cooldownMinutes : 0..MaxCooldownMinutes,
     notifyRecovery : BOOLEAN]

defaultIssueKey(issue) == <<issue.rule, issue.baseAsset, issue.direction>>

(* the constructor: minCooldownMs *)
MinCooldownMs(minCooldownMinutes) == Max(0, minCooldownMinutes) * 60 * 1000

(* faulty variant: the floor of the limiter is ignored *)
CooldownWithoutFloor(issue, minCooldownMs) == Max(0, issue.cooldownMinutes) * 60 * 1000

(* cooldownMs of process *)
CooldownMs(issue, minCooldownMs) ==
    Max(Max(0, issue.cooldownMinutes) * 60 * 1000, minCooldownMs)

(* the index of key in the entries of states, 0 if there is none *)
IndexOfKey(states, key) ==
    IF \E i \in DOMAIN states : states[i].key = key
    THEN CHOOSE i \in DOMAIN states : states[i].key = key
    ELSE 0

AlertEvent(type, issue, repeat, firstDetectedAt, lastSentAt) ==
    [type |-> type, issue |-> issue, repeat |-> repeat,
     firstDetectedAt |-> firstDetectedAt, lastSentAt |-> lastSentAt]

(* faulty variant: the state of a new key has no lastSentAt *)
NewStateNeverSent(key, issue, timestamp) ==
    [key |-> key, lastIssue |-> issue, firstDetectedAt |-> timestamp,
     lastSentAt |-> NullTime, notifyOnRecovery |-> issue.notifyOnRecovery]

(* the state process records for a key it has no state for *)
NewState(key, issue, timestamp) ==
    [key |-> key, lastIssue |-> issue, firstDetectedAt |-> timestamp,
     lastSentAt |-> timestamp, notifyOnRecovery |-> issue.notifyOnRecovery]

(* faulty variant of a round: every issue gets an alert, whatever the     *)
(* state of its key                                                        *)
ProcessIssueAlways(L, issue, timestamp, minCooldownMs) ==
    LET key == defaultIssueKey(issue)
        i == IndexOfKey(L.states, key)
    IN
    [states |-> IF i = 0 THEN Append(L.states, NewState(key, issue, timestamp))
                ELSE [L.states EXCEPT ![i].lastIssue = issue,
                                      ![i].notifyOnRecovery = issue.notifyOnRecovery,
                                      ![i].lastSentAt = timestamp],
     events |-> Append(L.events,
                       IF i = 0 THEN AlertEvent("alert", issue, FALSE, timestamp, NullTime)
                       ELSE AlertEvent("alert", issue, L.states[i].lastSentAt # NullTime,
                                       L.states[i].firstDetectedAt, L.states[i].lastSentAt)),
     seenKeys |-> L.seenKeys \cup {key}]

(* one round of the first loop of process; L holds states, events, seenKeys *)
ProcessIssue(L, issue, timestamp, minCooldownMs) ==
    LET key == defaultIssueKey(issue)
        i == IndexOfKey(L.states, key)
        seen == L.seenKeys \cup {key}
    IN
    IF i = 0
    THEN [states |-> Append(L.states, NewState(key, issue, timestamp)),
          events |-> Append(L.events, AlertEvent("alert", issue, FALSE, timestamp, NullTime)),
          seenKeys |-> seen]
    ELSE
    LET state == [L.states[i] EXCEPT !.lastIssue = issue,
                                     !.notifyOnRecovery = issue.notifyOnRecovery]
        cooldownMs == CooldownMs(issue, minCooldownMs)
    IN
    IF state.lastSentAt = NullTime \/ timestamp - state.lastSentAt >= cooldownMs
    THEN [states |-> [L.states EXCEPT ![i] = [state EXCEPT !.lastSentAt = timestamp]],
          events |-> Append(L.events,
                        AlertEvent("alert", issue, state.lastSentAt # NullTime,
                                   state.firstDetectedAt, state.lastSentAt)),
          seenKeys |-> seen]
    ELSE [states |-> [L.states EXCEPT ![i] = state],
          events |-> L.events,
          seenKeys |-> seen]

RECURSIVE ProcessIssues(_, _, _, _)
ProcessIssues(L, issues, timestamp, minCooldownMs) ==
    IF issues = <<>> THEN L
    ELSE ProcessIssues(ProcessIssue(L, Head(issues), timestamp, minCooldownMs),
                       Tail(issues), timestamp, minCooldownMs)

(* faulty variant of the second loop: the states of absent keys are kept *)
RECURSIVE RecoverKeepingStates(_, _)
RecoverKeepingStates(L, entries) ==
    IF entries = <<>> THEN L
    ELSE LET state == Head(entries) IN
         IF state.key \in L.seenKeys THEN RecoverKeepingStates(L, Tail(entries))
         ELSE RecoverKeepingStates(
                  [L EXCEPT !.events =
                       IF state.notifyOnRecovery
                       THEN Append(@, AlertEvent("recovery", state.lastIssue, FALSE,
                                                 state.firstDetectedAt, state.lastSentAt))
                       ELSE @],
                  Tail(entries))

(* the second loop of process, over the entries of states in insertion order *)
RECURSIVE Recover(_, _)
Recover(L, entries) ==
    IF entries = <<>> THEN L
    ELSE LET state == Head(entries) IN
         IF state.key \in L.seenKeys THEN Recover(L, Tail(entries))
         ELSE Recover(
                  [L EXCEPT !.events =
                       IF state.notifyOnRecovery
                       THEN Append(@, AlertEvent("recovery", state.lastIssue, FALSE,
                                                 state.firstDetectedAt, state.lastSentAt))
                       ELSE @,
                            !.states = SelectSeq(@, LAMBDA e : e.key # state.key)],
                  Tail(entries))

(* AlertLimiter.process: the states it leaves and the events it returns *)
Process(states, issues, timestamp, minCooldownMs) ==
    LET L1 == ProcessIssues([states |-> states, events |-> <<>>, seenKeys |-> {}],
                            issues, timestamp, minCooldownMs)
        L2 == Recover(L1, L1.states)
    IN [states |-> L2.states, events |-> L2.events]

(* the limiter the service builds: minCooldownMinutes at its largest, and *)
(* the default rule with cooldown and recovery notice                      *)
ServiceLimiterConfig ==
    [minCooldownMinutes |-> MaxFloorMinutes,
     cooldownMinutes |-> MaxCooldownMinutes,
     notifyRecovery |-> TRUE]

(* a new AlertLimiter *)
LimiterNew(config) ==
    /\ limiterStates = <<>>
    /\ limiterEvents = <<>>
    /\ limiterIssues = <<>>
    /\ limiterConfig = config
    /\ processCalls = 0

-----------------------------------------------------------------------------
(* PositionValidationService *)

(* the service with its limiter: V holds running, runs, sent, lastOutcome  *)
(* and the limiter's states, events, issues, calls                         *)
Validation ==
    [running |-> running, runs |-> runs, sent |-> sent, lastOutcome |-> lastOutcome,
     states |-> limiterStates, events |-> limiterEvents, issues |-> limiterIssues,
     calls |-> processCalls]

(* RULE_LABEL_MAP[issue.rule] ?? issue.rule *)
RuleLabel(rule) ==
    CASE rule = "leverage_limit" -> "LEVERAGE"
      [] rule = "margin_share_limit" -> "MARGIN_SHARE"
      [] OTHER -> rule

resolveScope(issue) ==
    IF issue.direction = "global" THEN <<"ACCOUNT">>
    ELSE <<issue.baseAsset, IF issue.direction = "long" THEN "LONG" ELSE "SHORT">>

(* buildDigestEvent: statusLabel "RECOVERED" is 恢复, "ALERT" is 告警 *)
buildDigestEvent(event, triggeredAt) ==
    LET issue == event.issue
        ruleLabel == RuleLabel(issue.rule)
        scopeLabel == resolveScope(issue)
    IN [title |-> <<ruleLabel, scopeLabel>>,
        scopeLabel |-> scopeLabel,
        statusLabel |-> IF event.type = "recovery" THEN "RECOVERED" ELSE "ALERT",
        severity |-> issue.severity,
        ruleLabel |-> ruleLabel,
        extraFields |-> IF event.type # "recovery" THEN <<issue.symbol>> ELSE <<>>,
        firstDetectedAt |-> event.firstDetectedAt,
        triggeredAt |-> triggeredAt,
        repeat |-> event.repeat]

(* statusLabel.includes('恢复') *)
IsRecoveryLabel(statusLabel) == statusLabel = "RECOVERED"

(* faulty variant: the severity of a recovered issue colours the header *)
TemplateOfAnySeverity(events) ==
    IF Len(events) = 0 THEN "blue"
    ELSE IF ~ \E i \in DOMAIN events : ~ IsRecoveryLabel(events[i].statusLabel) THEN "green"
    ELSE IF \E i \in DOMAIN events : events[i].severity = "critical" THEN "red"
    ELSE IF \E i \in DOMAIN events : events[i].severity = "warning" THEN "orange"
    ELSE "blue"

(* resolveDigestTemplate: the header colour of a digest card *)
resolveDigestTemplate(events) ==
    LET hasAlert == \E i \in DOMAIN events : ~ IsRecoveryLabel(events[i].statusLabel) IN
    IF Len(events) = 0 THEN "blue"
    ELSE IF ~ hasAlert THEN "green"
    ELSE IF \E i \in DOMAIN events :
                /\ events[i].severity = "critical"
                /\ ~ IsRecoveryLabel(events[i].statusLabel)
         THEN "red"
    ELSE IF \E i \in DOMAIN events :
                /\ events[i].severity = "warning"
                /\ ~ IsRecoveryLabel(events[i].statusLabel)
         THEN "orange"
    ELSE "blue"

(* faulty variant: the card holds the first event only *)
DigestOfFirstEvent(events, triggeredAt) ==
    [triggeredAt |-> triggeredAt,
     count |-> 1,
     template |-> resolveDigestTemplate(<<buildDigestEvent(events[1], triggeredAt)>>),
     events |-> <<buildDigestEvent(events[1], triggeredAt)>>]

(* buildDigestCard and buildPositionAlertDigestCard: count is the number  *)
(* the card states in its title and first element                          *)
buildDigestCard(events, triggeredAt) ==
    LET digest == [i \in DOMAIN events |-> buildDigestEvent(events[i], triggeredAt)] IN
    [triggeredAt |-> triggeredAt,
     count |-> Len(events),
     template |-> resolveDigestTemplate(digest),
     events |-> digest]

(* faulty variant: run has no guard *)
RunUnguarded(V, id, t) ==
    [V EXCEPT !.running = TRUE,
              !.runs = @ \cup {[id |-> id, pc |-> "fetch", fetchedAt |-> t]}]

(* run, called at time t, up to its first await or to its return:         *)
(* fetchAccountContext takes t as the fetchedAt of its result              *)
Run(V, id, t) ==
    IF V.running
    THEN [V EXCEPT !.lastOutcome = "skipped"]
    ELSE [V EXCEPT !.running = TRUE,
                   !.runs = @ \cup {[id |-> id, pc |-> "fetch", fetchedAt |-> t]}]

(* fetchAccountContext has resolved: run awaits fetchMetrics *)
RunFetched(V, run) ==
    [V EXCEPT !.runs = (@ \ {run}) \cup {[run EXCEPT !.pc = "metrics"]}]

(* what run came to when the await it was suspended at rejected and the   *)
(* catch block took the error                                              *)
Caught(run) == IF run.pc = "fetch" THEN "caught fetch error" ELSE "caught send error"

(* faulty variant of catch and finally: running is not reset *)
RunFailedStillRunning(V, run) ==
    [V EXCEPT !.runs = @ \ {run}, !.lastOutcome = Caught(run)]

(* an await of run has rejected: the catch and the finally block *)
RunFailed(V, run) ==
    [V EXCEPT !.runs = @ \ {run}, !.running = FALSE, !.lastOutcome = Caught(run)]

(* fetchMetrics has resolved and the rule engine has found the issues:    *)
(* run up to its return or to the await of notifier.send                   *)
RunEvaluated(V, run, issues, minCooldownMs) ==
    LET r == Process(V.states, issues, run.fetchedAt, minCooldownMs)
        V1 == [V EXCEPT !.states = r.states, !.events = r.events,
                        !.issues = issues, !.calls = @ + 1]
    IN IF Len(r.events) = 0
       THEN [V1 EXCEPT !.runs = @ \ {run}, !.running = FALSE, !.lastOutcome = "completed"]
       ELSE [V1 EXCEPT !.sent = Append(@, buildDigestCard(r.events, run.fetchedAt)),
                       !.runs = (@ \ {run}) \cup {[run EXCEPT !.pc = "send"]}]

(* faulty variant: run returns after the send without the finally block *)
RunSentStillRunning(V, run) ==
    [V EXCEPT !.runs = @ \ {run}, !.lastOutcome = "completed"]

(* notifier.send has resolved: the finally block *)
RunSent(V, run) ==
    [V EXCEPT !.runs = @ \ {run}, !.running = FALSE, !.lastOutcome = "completed"]

(* a new PositionValidationService *)
ValidationNew ==
    /\ running = FALSE
    /\ runs = {}
    /\ sent = <<>>
    /\ runCalls = 0
    /\ lastOutcome = "none"

-----------------------------------------------------------------------------
(* config/positionRules.ts and PositionRuleEngine.  Numbers that are not   *)
(* whole are kept exact as num / den; "number | null" is the empty set for *)
(* null and a singleton for a number.                                      *)

Null == {}

Some(v) == {v}

ValueOf(nullable) == CHOOSE v \in nullable : TRUE

Frac(n, d) == [num |-> n, den |-> d]

Whole(n) == Frac(n, 1)

Abs(x) == IF x < 0 THEN -x ELSE x

(* x < y *)
FracLess(x, y) == x.num * y.den < y.num * x.den

(* a / b > limit, for numbers a >= 0 and b >= 0: a / 0 is Infinity when   *)
(* a > 0 and NaN when a = 0, and NaN exceeds nothing                      *)
QuotientExceeds(a, b, limit) ==
    IF b = 0 THEN a > 0 ELSE a * limit.den > limit.num * b

(* a / b as a number: Infinity and NaN have den 0 *)
Quotient(a, b) == Frac(a, b)

RECURSIVE Distinct(_)
(* new Set(list): the elements of list in the order of their first occurrence *)
Distinct(list) ==
    IF list = <<>> THEN <<>>
    ELSE LET front == Distinct(SubSeq(list, 1, Len(list) - 1))
             last == list[Len(list)]
         IN IF \E i \in DOMAIN front : front[i] = last THEN front ELSE Append(front, last)

FALLBACK_DEFAULTS ==
    [maxLeverage |-> Some(3),
     maxMarginShare |-> Some(Frac(5, 100)),
     fundingThresholdLong |-> Null,
     fundingThresholdShort |-> Some(Frac(-2, 1000)),
     cooldownMinutes |-> 60,
     notifyRecovery |-> FALSE,
     totalMarginUsageLimit |-> Some(Whole(1))]

normalizeDefaultList(list) == IF Len(list) = 0 THEN Null ELSE Some(list)

(* normalizeDefaults: raw holds the lists and the usage limit of the file *)
normalizeDefaults(raw) ==
    [whitelistLong |-> normalizeDefaultList(raw.whitelistLong),
     whitelistShort |-> normalizeDefaultList(raw.whitelistShort),
     blacklistLong |-> normalizeDefaultList(raw.blacklistLong),
     blacklistShort |-> normalizeDefaultList(raw.blacklistShort),
     maxLeverage |-> FALLBACK_DEFAULTS.maxLeverage,
     maxMarginShare |-> FALLBACK_DEFAULTS.maxMarginShare,
     fundingThresholdLong |-> FALLBACK_DEFAULTS.fundingThresholdLong,
     fundingThresholdShort |-> FALLBACK_DEFAULTS.fundingThresholdShort,
     cooldownMinutes |-> FALLBACK_DEFAULTS.cooldownMinutes,
     notifyRecovery |-> FALLBACK_DEFAULTS.notifyRecovery,
     totalMarginUsageLimit |-> raw.totalMarginUsageLimit]

(* collect, over the four lists of the defaults *)
collect(defaults) ==
    LET listOf(nullable) == IF nullable = Null THEN <<>> ELSE ValueOf(nullable) IN
    Distinct(listOf(defaults.whitelistLong) \o listOf(defaults.whitelistShort)
             \o listOf(defaults.blacklistLong) \o listOf(defaults.blacklistShort))

(* the module constant positionRulesConfig for a configuration file raw   *)
(* that has no overrides                                                   *)
LoadPositionRules(raw) ==
    [defaults |-> normalizeDefaults(raw),
     configuredAssets |-> collect(normalizeDefaults(raw))]

(* the configuration files of the model: the usage limit is absent (the   *)
(* fallback applies) or null                                               *)
RawConfigs ==
    [whitelistLong : {<<>>, <<"BTC">>},
     whitelistShort : {<<>>},
     blacklistLong : {<<>>, <<"BTC">>},
     blacklistShort : {<<>>},
     totalMarginUsageLimit : {FALLBACK_DEFAULTS.totalMarginUsageLimit, Null}]

toSet(list) == IF list = Null THEN Null ELSE Some({ValueOf(list)[i] : i \in DOMAIN ValueOf(list)})

(* set && set.has(asset) *)
Has(set, asset) == set # Null /\ asset \in ValueOf(set)

(* set && !set.has(asset) *)
HasNot(set, asset) == set # Null /\ asset \notin ValueOf(set)

(* resolvePositionRule, for a configuration without overrides *)
resolvePositionRule(config, baseAsset) ==
    [baseAsset |-> baseAsset,
     whitelistLong |-> toSet(config.defaults.whitelistLong),
     whitelistShort |-> toSet(config.defaults.whitelistShort),
     blacklistLong |-> toSet(config.defaults.blacklistLong),
     blacklistShort |-> toSet(config.defaults.blacklistShort),
     maxLeverage |-> config.defaults.maxLeverage,
     maxMarginShare |-> config.defaults.maxMarginShare,
     fundingThresholdLong |-> config.defaults.fundingThresholdLong,
     fundingThresholdShort |-> config.defaults.fundingThresholdShort,
     cooldownMinutes |-> config.defaults.cooldownMinutes,
     notifyRecovery |-> config.defaults.notifyRecovery]

getTotalMarginUsageLimit(config) == config.defaults.totalMarginUsageLimit

getConfiguredAssets(config) == config.configuredAssets

(* the perpetual contracts of a base asset: deriveBaseAsset gives both    *)
(* contracts of BTC the base asset BTC                                     *)
SymbolsOf(asset) == IF asset = "ETH" THEN {"ETHUSDT"} ELSE {"BTCUSDT", "BTCUSDC"}

(* the positions of the model: calm, stretched (leverage, margin and       *)
(* funding rate beyond the default limits) and without a funding rate      *)
Snapshots ==
    {[baseAsset |-> contract[1], symbol |-> contract[2], direction |-> direction,
      leverage |-> profile.leverage, initialMargin |-> profile.initialMargin,
      notional |-> profile.notional, predictedFundingRate |-> profile.predictedFundingRate] :
        contract \in UNION {{<<asset, symbol>> : symbol \in SymbolsOf(asset)} : asset \in Assets},
        direction \in {"long", "short"},
        profile \in {[leverage |-> 2, initialMargin |-> 1, notional |-> 10000,
                      predictedFundingRate |-> Some(Whole(0))],
                     [leverage |-> 5, initialMargin |-> 60, notional |-> 50000,
                      predictedFundingRate |-> Some(Frac(-3, 1000))],
                     [leverage |-> 2, initialMargin |-> 1, notional |-> 10000,
                      predictedFundingRate |-> Null]}}

(* the account contexts fetchAccountContext can return: totalMarginBalance *)
(* is Math.max(0, ...), and the exchange reports one open position for a   *)
(* contract and direction                                                   *)
AccountContexts ==
    [totalMarginBalance : {0, Balance},
     snapshots : {rows \in UNION {[1..n -> Snapshots] : n \in 0..MaxSnapshots} :
                     \A i, j \in DOMAIN rows :
                         rows[i].symbol = rows[j].symbol /\ rows[i].direction = rows[j].direction
                         => i = j}]

DeepMarket ==
    [openInterest |-> Some(10000000), referencePrice |-> Some(1),
     openInterestNotional |-> Some(10000000), marketCap |-> Some(100000000),
     volume24h |-> Some(Whole(5000000)), hhi |-> Some(Frac(1, 10))]

ThinMarket ==
    [openInterest |-> Some(1000000), referencePrice |-> Some(1),
     openInterestNotional |-> Some(1000000), marketCap |-> Some(10000000),
     volume24h |-> Some(Whole(500000)), hhi |-> Some(Frac(3, 10))]

UnknownMarket ==
    [openInterest |-> Null, referencePrice |-> Null,
     openInterestNotional |-> Null, marketCap |-> Null,
     volume24h |-> Null, hhi |-> Null]

(* the symbolMetrics argument: undefined, or a map of the symbols *)
SymbolMetricsMaps ==
    {Null} \cup {Some([s \in UNION {SymbolsOf(a) : a \in Assets} |-> market]) :
                    market \in {DeepMarket, ThinMarket, UnknownMarket}}

shareThreshold == Frac(2, 100)
minOpenInterest == 2000000
minMarketCap == 50000000
minVolume24h == 1000000
maxHhi == Frac(2, 10)

Issue(rule, baseAsset, direction, severity, issueRule, value, threshold) ==
    [rule |-> rule, baseAsset |-> baseAsset, direction |-> direction,
     severity |-> severity,
     cooldownMinutes |-> issueRule.cooldownMinutes,
     notifyOnRecovery |-> issueRule.notifyRecovery,
     value |-> value, threshold |-> threshold]

(* if (condition) issues.push(issue) *)
PushIf(condition, issue) == IF condition THEN <<issue>> ELSE <<>>

(* groupPositionsByAsset: the keys of the map, in insertion order *)
AssetKeys(snapshots) == Distinct([i \in DOMAIN snapshots |-> snapshots[i].baseAsset])

(* groupPositionsByAsset: grouped.get(asset)[direction] *)
PositionsOf(snapshots, asset, direction) ==
    SelectSeq(snapshots, LAMBDA snap : snap.baseAsset = asset /\ snap.direction = direction)

(* groupPositionsBySymbol: the keys of the map, in insertion order *)
SymbolKeys(snapshots) == Distinct([i \in DOMAIN snapshots |-> snapshots[i].symbol])

(* groupPositionsBySymbol: grouped.get(symbol) *)
PositionsOfSymbol(snapshots, symbol) == SelectSeq(snapshots, LAMBDA snap : snap.symbol = symbol)

RECURSIVE aggregateInitialMargin(_)
aggregateInitialMargin(positions) ==
    IF positions = <<>> THEN 0
    ELSE Abs(Head(positions).initialMargin) + aggregateInitialMargin(Tail(positions))

RECURSIVE aggregateNotional(_)
aggregateNotional(positions) ==
    IF positions = <<>> THEN 0
    ELSE Abs(Head(positions).notional) + aggregateNotional(Tail(positions))

(* the whitelist and blacklist checks of one asset *)
ListIssues(assetRule, asset, long, short) ==
    PushIf(Has(assetRule.whitelistLong, asset) /\ Has(assetRule.blacklistLong, asset),
           Issue("config_error", asset, "long", "critical", assetRule, Null, Null))
    \o PushIf(Has(assetRule.whitelistShort, asset) /\ Has(assetRule.blacklistShort, asset),
              Issue("config_error", asset, "short", "critical", assetRule, Null, Null))
    \o PushIf(HasNot(assetRule.whitelistLong, asset) /\ Len(long) > 0,
              Issue("whitelist_violation", asset, "long", "critical", assetRule,
                    Some(Whole(aggregateNotional(long))), Null))
    \o PushIf(HasNot(assetRule.whitelistShort, asset) /\ Len(short) > 0,
              Issue("whitelist_violation", asset, "short", "critical", assetRule,
                    Some(Whole(aggregateNotional(short))), Null))
    \o PushIf(Has(assetRule.blacklistLong, asset) /\ Len(long) > 0,
              Issue("blacklist_violation", asset, "long", "critical", assetRule,
                    Some(Whole(aggregateNotional(long))), Null))
    \o PushIf(Has(assetRule.blacklistShort, asset) /\ Len(short) > 0,
              Issue("blacklist_violation", asset, "short", "critical", assetRule,
                    Some(Whole(aggregateNotional(short))), Null))

RECURSIVE LeverageIssues(_, _, _)
(* the loop over [...positions.long, ...positions.short] *)
LeverageIssues(assetRule, asset, positions) ==
    IF assetRule.maxLeverage = Null \/ positions = <<>> THEN <<>>
    ELSE LET position == Head(positions) IN
         PushIf(position.leverage > ValueOf(assetRule.maxLeverage),
                Issue("leverage_limit", asset, position.direction, "warning", assetRule,
                      Some(Whole(position.leverage)), Some(Whole(ValueOf(assetRule.maxLeverage)))))
         \o LeverageIssues(assetRule, asset, Tail(positions))

MarginShareIssues(assetRule, asset, long, short, totalMarginBalance) ==
    IF assetRule.maxMarginShare # Null /\ totalMarginBalance > 0
    THEN PushIf(QuotientExceeds(aggregateInitialMargin(long), totalMarginBalance,
                                ValueOf(assetRule.maxMarginShare)),
                Issue("margin_share_limit", asset, "long", "warning", assetRule,
                      Some(Quotient(aggregateInitialMargin(long), totalMarginBalance)),
                      assetRule.maxMarginShare))
         \o PushIf(QuotientExceeds(aggregateInitialMargin(short), totalMarginBalance,
                                   ValueOf(assetRule.maxMarginShare)),
                   Issue("margin_share_limit", asset, "short", "warning", assetRule,
                         Some(Quotient(aggregateInitialMargin(short), totalMarginBalance)),
                         assetRule.maxMarginShare))
    ELSE <<>>

RECURSIVE FundingIssues(_, _, _, _)
(* the funding loops: a short position is beyond its threshold when its   *)
(* rate is below it, a long position when its rate is above it            *)
FundingIssues(assetRule, asset, direction, positions) ==
    LET threshold == IF direction = "short" THEN assetRule.fundingThresholdShort
                     ELSE assetRule.fundingThresholdLong
    IN
    IF positions = <<>> THEN <<>>
    ELSE LET rate == Head(positions).predictedFundingRate IN
         (IF threshold = Null THEN <<>>
          ELSE IF rate = Null
          THEN <<Issue("data_missing", asset, direction, "warning", assetRule, Null, Null)>>
          ELSE PushIf(IF direction = "short" THEN FracLess(ValueOf(rate), ValueOf(threshold))
                      ELSE FracLess(ValueOf(threshold), ValueOf(rate)),
                      Issue("funding_rate_limit", asset, direction, "warning", assetRule,
                            rate, threshold)))
         \o FundingIssues(assetRule, asset, direction, Tail(positions))

(* one round of the loop over candidateAssets *)
AssetIssues(config, context, asset) ==
    LET assetRule == resolvePositionRule(config, asset)
        long == PositionsOf(context.snapshots, asset, "long")
        short == PositionsOf(context.snapshots, asset, "short")
    IN ListIssues(assetRule, asset, long, short)
       \o LeverageIssues(assetRule, asset, long \o short)
       \o MarginShareIssues(assetRule, asset, long, short, context.totalMarginBalance)
       \o FundingIssues(assetRule, asset, "short", short)
       \o FundingIssues(assetRule, asset, "long", long)

RECURSIVE CandidateIssues(_, _, _)
CandidateIssues(config, context, candidateAssets) ==
    IF candidateAssets = <<>> THEN <<>>
    ELSE AssetIssues(config, context, Head(candidateAssets))
         \o CandidateIssues(config, context, Tail(candidateAssets))

(* faulty variant: only a negative balance counts as missing *)
AccountIssuesOfNegativeBalance(config, context) ==
    LET usageLimit == getTotalMarginUsageLimit(config)
        aggregatedInitialMargin == aggregateInitialMargin(context.snapshots)
    IN IF context.totalMarginBalance < 0
       THEN <<Issue("data_missing", "__account__", "global", "critical", config.defaults,
                    Null, Null)>>
       ELSE IF usageLimit # Null
       THEN PushIf(QuotientExceeds(aggregatedInitialMargin, context.totalMarginBalance,
                                   ValueOf(usageLimit)),
                   Issue("total_margin_usage", "__account__", "global", "critical",
                         config.defaults,
                         Some(Quotient(aggregatedInitialMargin, context.totalMarginBalance)),
                         usageLimit))
       ELSE <<>>

(* the account-level checks of evaluate *)
AccountIssues(config, context) ==
    LET usageLimit == getTotalMarginUsageLimit(config)
        aggregatedInitialMargin == aggregateInitialMargin(context.snapshots)
    IN IF context.totalMarginBalance <= 0
       THEN <<Issue("data_missing", "__account__", "global", "critical", config.defaults,
                    Null, Null)>>
       ELSE IF usageLimit # Null
       THEN PushIf(QuotientExceeds(aggregatedInitialMargin, context.totalMarginBalance,
                                   ValueOf(usageLimit)),
                   Issue("total_margin_usage", "__account__", "global", "critical",
                         config.defaults,
                         Some(Quotient(aggregatedInitialMargin, context.totalMarginBalance)),
                         usageLimit))
       ELSE <<>>

(* symbolMetrics?.get(symbol) *)
MetricsOf(metrics, symbol) ==
    IF metrics = Null THEN Null
    ELSE IF symbol \in DOMAIN ValueOf(metrics) THEN Some(ValueOf(metrics)[symbol])
    ELSE Null

(* metrics?.field ?? null *)
Field(market, name) == IF market = Null THEN Null ELSE ValueOf(market)[name]

(* one round of the loop of evaluateSymbolMetrics *)
SymbolIssues(config, symbol, positions, metrics) ==
    LET market == MetricsOf(metrics, symbol)
        baseRule == resolvePositionRule(config, positions[1].baseAsset)
        referencePrice == Field(market, "referencePrice")
        openInterestNotional == Field(market, "openInterestNotional")
        marketCap == Field(market, "marketCap")
        volume24h == Field(market, "volume24h")
        hhi == Field(market, "hhi")
        hasOpenInterest == openInterestNotional # Null /\ ValueOf(openInterestNotional) > 0
        totalNotional == aggregateNotional(positions)
        missingFields ==
            (IF hasOpenInterest THEN <<>>
             ELSE <<"OI", IF referencePrice = Null THEN "price" ELSE "OI notional">>)
            \o (IF marketCap = Null THEN <<"market cap">> ELSE <<>>)
            \o (IF volume24h = Null THEN <<"24h volume">> ELSE <<>>)
            \o (IF hhi = Null THEN <<"HHI">> ELSE <<>>)
    IN (IF hasOpenInterest
        THEN PushIf(QuotientExceeds(totalNotional, ValueOf(openInterestNotional), shareThreshold),
                    Issue("oi_share_limit", symbol, "global", "critical", baseRule,
                          Some(Quotient(totalNotional, ValueOf(openInterestNotional))),
                          Some(shareThreshold)))
             \o PushIf(ValueOf(openInterestNotional) < minOpenInterest,
                       Issue("oi_minimum", symbol, "global", "warning", baseRule,
                             Some(Whole(ValueOf(openInterestNotional))),
                             Some(Whole(minOpenInterest))))
        ELSE <<>>)
       \o (IF marketCap # Null
           THEN PushIf(ValueOf(marketCap) < minMarketCap,
                       Issue("market_cap_minimum", symbol, "global", "warning", baseRule,
                             Some(Whole(ValueOf(marketCap))), Some(Whole(minMarketCap))))
           ELSE <<>>)
       \o (IF volume24h # Null
           THEN PushIf(FracLess(ValueOf(volume24h), Whole(minVolume24h)),
                       Issue("volume_24h_minimum", symbol, "global", "warning", baseRule,
                             volume24h, Some(Whole(minVolume24h))))
           ELSE <<>>)
       \o (IF hhi # Null
           THEN PushIf(FracLess(maxHhi, ValueOf(hhi)),
                       Issue("concentration_hhi_limit", symbol, "global", "warning", baseRule,
                             hhi, Some(maxHhi)))
           ELSE <<>>)
       \o PushIf(Len(missingFields) > 0,
                 Issue("data_missing", symbol, "global", "warning", baseRule, Null, Null))

RECURSIVE evaluateSymbolMetrics(_, _, _, _)
(* evaluateSymbolMetrics: the issues it pushes, symbols being the keys of *)
(* groupedBySymbol that are left                                           *)
evaluateSymbolMetrics(config, snapshots, symbols, metrics) ==
    IF symbols = <<>> THEN <<>>
    ELSE SymbolIssues(config, Head(symbols), PositionsOfSymbol(snapshots, Head(symbols)), metrics)
         \o evaluateSymbolMetrics(config, snapshots, Tail(symbols), metrics)

(* the engine with what it reads: E holds config, context, metrics and    *)
(* the issues of the last call                                             *)
Engine ==
    [config |-> positionRulesConfig, context |-> accountContext,
     metrics |-> symbolMetrics, issues |-> engineIssues]

(* the list evaluate builds from nothing but its arguments and the        *)
(* configuration                                                           *)
EvaluatedIssues(config, context, metrics) ==
    LET candidateAssets == Distinct(getConfiguredAssets(config) \o AssetKeys(context.snapshots))
    IN CandidateIssues(config, context, candidateAssets)
       \o AccountIssues(config, context)
       \o evaluateSymbolMetrics(config, context.snapshots, SymbolKeys(context.snapshots), metrics)

(* faulty variant: the issues array outlives the call *)
EvaluateAccumulating(E) ==
    [E EXCEPT !.issues = @ \o EvaluatedIssues(E.config, E.context, E.metrics)]

(* evaluate: a new issues array is filled and returned; the arguments and *)
(* the configuration are read only                                         *)
Evaluate(E) ==
    [E EXCEPT !.issues = EvaluatedIssues(E.config, E.context, E.metrics)]

(* the engine before any call, for the fallback configuration and an      *)
(* account without positions                                               *)
EngineNew ==
    /\ positionRulesConfig =
           LoadPositionRules([whitelistLong |-> <<>>, whitelistShort |-> <<>>,
                              blacklistLong |-> <<>>, blacklistShort |-> <<>>,
                              totalMarginUsageLimit |-> FALLBACK_DEFAULTS.totalMarginUsageLimit])
    /\ accountContext = [totalMarginBalance |-> Balance, snapshots |-> <<>>]
    /\ symbolMetrics = Null
    /\ engineIssues = <<>>
    /\ evaluations = 0

(* no digest card has been asked for *)
DigestNew ==
    /\ digestEvents = <<>>
    /\ digestCards = <<>>

(* no call of runWithConcurrency is under way *)
NoBatch == [tasks |-> <<>>, index |-> 0, busy |-> {}, timestamp |-> 0]

(* new SymbolMetricsFetcher(options): options.concurrency is a number or   *)
(* absent                                                                  *)
NoOptions == {}

FetcherNew(options) ==
    /\ fetcherConcurrency =
           LET given == IF options = {} THEN DEFAULT_CONCURRENCY
                        ELSE CHOOSE c \in options : TRUE
           IN IF given > 1 THEN given ELSE 1
    /\ oiCache = EmptyMap
    /\ tokenCache = EmptyMap
    /\ oiBatch = NoBatch
    /\ tokenBatch = NoBatch
    /\ fetchCalls = 0

(* new OrderNotificationService(options) *)
DispatcherNew ==
    /\ dedupCache = EmptyMap
    /\ lifecycleSent = <<>>
    /\ fillSent = <<>>
    /\ handled = EmptyBag
    /\ firstHandledAt = EmptyMap

OtherInit ==
    /\ ProviderInit /\ LimiterNew(ServiceLimiterConfig) /\ ValidationNew /\ EngineNew /\ DigestNew
    /\ FetcherNew(NoOptions) /\ DispatcherNew /\ phase = "running"

-----------------------------------------------------------------------------
(* The stream: the orders and events of the model *)

(* An order as the exchange reports it: C is the field o.C of the raw     *)
(* message, the client order id of the stop order that created the order. *)
GeneralOrder ==
    [orderId |-> 1, clientOrderId |-> GeneralClientId,
     C |-> NoClientId, orderType |-> "LIMIT"]

StopOrder ==
    [orderId |-> 2, clientOrderId |-> StopClientId,
     C |-> NoClientId, orderType |-> "STOP_MARKET"]

(* the MARKET order the exchange creates when StopOrder triggers *)
ExecutionOrder ==
    [orderId |-> 3, clientOrderId |-> ExecutionClientId,
     C |-> StopClientId, orderType |-> "MARKET"]

(* a stop order whose client order id has the prefix TW_ *)
TimeWindowOrder ==
    [orderId |-> 4, clientOrderId |-> TimeWindowClientId,
     C |-> NoClientId, orderType |-> "STOP_MARKET"]

(* a run follows one of these sets of orders *)
OrderSets == {{GeneralOrder}, {StopOrder}}

Shapes ==
    {[status |-> "NEW", execType |-> "NEW", cumulativeQuantity |-> 0, lastQuantity |-> 0],
     [status |-> "FILLED", execType |-> "TRADE", cumulativeQuantity |-> OrigQty, lastQuantity |-> 1],
     [status |-> "CANCELED", execType |-> "CANCELED", cumulativeQuantity |-> 0, lastQuantity |-> 0],
     [status |-> "CANCELED", execType |-> "CANCELED", cumulativeQuantity |-> 1, lastQuantity |-> 0],
     [status |-> "EXPIRED", execType |-> "EXPIRED", cumulativeQuantity |-> 0, lastQuantity |-> 0]}
    \cup {[status |-> "PARTIALLY_FILLED", execType |-> "TRADE",
           cumulativeQuantity |-> q, lastQuantity |-> 1] : q \in 1..MaxPartial}

(* a MARKET order executes at once: it is reported as created and as filled *)
ShapesOf(order) ==
    IF order.orderType = "MARKET"
    THEN {shape \in Shapes : shape.status \in {"NEW", "FILLED"}}
    ELSE Shapes

(* toOrderEvent of a message the exchange sends now.  The schema of the   *)
(* raw message has no key C and toOrderEvent assigns no                   *)
(* originalClientOrderId, so the field is undefined whatever o.C was.     *)
OrderEvent(order, shape) ==
    [symbol |-> Symbol,
     orderId |-> order.orderId,
     clientOrderId |-> order.clientOrderId,
     originalClientOrderId |-> NoClientId,
     orderType |-> order.orderType,
     status |-> shape.status,
     execType |-> shape.execType,
     eventTime |-> now,
     tradeTime |-> now,
     originalQuantity |-> OrigQty,
     cumulativeQuantity |-> shape.cumulativeQuantity,
     lastQuantity |-> shape.lastQuantity,
     averagePrice |-> IF shape.cumulativeQuantity > 0 THEN Price ELSE 0,
     lastPrice |-> IF shape.lastQuantity > 0 THEN Price ELSE 0,
     orderPrice |-> IF order.orderType = "LIMIT" THEN Price ELSE 0,
     realizedProfit |-> IF shape.lastQuantity > 0 THEN Profit ELSE 0]

-----------------------------------------------------------------------------
(* Actions *)

Commit(S) ==
    /\ store' = S.store
    /\ timers' = S.timers
    /\ processedEvents' = S.processedEvents
    /\ finalizedContexts' = S.finalizedContexts
    /\ stopPresentationCache' = S.stopPresentationCache
    /\ suppressedStopClientIds' = S.suppressedStopClientIds
    /\ inflight' = S.inflight
    /\ notifications' = S.notifications
    /\ summaryCalls' = S.summaryCalls
    /\ lastFinal' = S.lastFinal

(* a new OrderAggregator *)
AggregatorInit ==
    /\ store = EmptyMap
    /\ timers = {}
    /\ processedEvents = EmptyMap
    /\ finalizedContexts = EmptyMap
    /\ stopPresentationCache = EmptyMap
    /\ suppressedStopClientIds = {}
    /\ inflight = {}
    /\ notifications = <<>>
    /\ summaryCalls = 0
    /\ delivered = EmptyBag
    /\ lastFinal = EmptyMap
    /\ sinceFlush = EmptyMap

Init ==
    /\ now = 0
    /\ AggregatorInit
    /\ orders \in OrderSets
    /\ OtherInit

(* a timer handle or activation id that nothing refers to *)
FreshId ==
    LET used == {t.id : t \in timers} \cup {a.id : a \in inflight}
                \cup {store[k].timer : k \in DOMAIN store}
    IN CHOOSE i \in 1..(Cardinality(used) + 1) :
           i \notin used /\ \A j \in 1..(i - 1) : j \in used

(* streamClient.on('message'): the exchange sends a new event, service.ts  *)
(* starts handleEvent on it and does not wait for it                       *)
EventsSinceFlush(K) == IF K \in DOMAIN sinceFlush THEN sinceFlush[K] ELSE {}

Deliver(event) ==
    /\ BagCardinality(delivered) < MaxDeliveries
    /\ Cardinality(inflight) < MaxInflight
    /\ delivered' = delivered (+) SetToBag({event})
    /\ sinceFlush' = Put(sinceFlush, AggregationKey(event),
                          EventsSinceFlush(AggregationKey(event)) \cup {event})
    /\ Commit(HandleEvent(State, event, FreshId))
    /\ UNCHANGED <<now, orders, otherVars>>

DeliverFresh ==
    \E order \in orders : \E shape \in ShapesOf(order) : Deliver(OrderEvent(order, shape))

(* the stream delivers an earlier message again, verbatim *)
Redeliver ==
    \E event \in BagToSet(delivered) :
        /\ event.eventTime < now
        /\ Deliver(event)

(* a pending setTimeout of ensureTimer comes due and its callback runs *)
TimerFire ==
    \E timer \in timers :
        /\ now >= timer.deadline
        /\ Cardinality(inflight) < MaxInflight
        /\ Commit(TimerCallback([State EXCEPT !.timers = @ \ {timer}], timer))
        /\ UNCHANGED <<now, orders, delivered, sinceFlush, otherVars>>

(* metricsProvider.getSummary() settles: emitNotification builds the       *)
(* payload and calls the notification handler                              *)
SummaryResolved ==
    \E act \in inflight :
        /\ act.pc = "summary"
        /\ notifications' = Append(notifications, Payload(act.context, act.scenario, act.options))
        /\ inflight' = (inflight \ {act}) \cup {[act EXCEPT !.pc = "handler"]}
        /\ UNCHANGED <<now, store, timers, processedEvents, finalizedContexts,
                       stopPresentationCache, suppressedStopClientIds, summaryCalls, orders,
                       delivered, lastFinal, sinceFlush, otherVars>>

(* the notification handler resolves *)
HandlerResolved ==
    \E act \in inflight :
        /\ act.pc = "handler"
        /\ LET S == [State EXCEPT !.inflight = @ \ {act}] IN
           IF act.kind = "timer"
           THEN /\ Commit(FinishTimer(S, act))
                /\ sinceFlush' = Put(sinceFlush, AggregationKey(act.event), {})
           ELSE /\ Commit(FinishEvent(S, act))
                /\ UNCHANGED sinceFlush
        /\ UNCHANGED <<now, orders, delivered, otherVars>>

(* the notification handler rejects (FeishuNotifier.send gives up) *)
HandlerRejected ==
    \E act \in inflight :
        /\ act.pc = "handler"
        /\ LET S == [State EXCEPT !.inflight = @ \ {act}] IN
           IF act.kind = "timer" THEN Commit(S) ELSE Commit(FailEvent(S, act))
        /\ UNCHANGED <<now, orders, delivered, sinceFlush, otherVars>>

Tick ==
    /\ now + TickMs <= MaxNow
    /\ now' = now + TickMs
    /\ UNCHANGED <<store, timers, processedEvents, finalizedContexts, stopPresentationCache,
                   suppressedStopClientIds, inflight, notifications, summaryCalls, orders,
                   delivered, lastFinal, sinceFlush, otherVars>>

Next ==
    \/ DeliverFresh
    \/ Redeliver
    \/ TimerFire
    \/ SummaryResolved
    \/ HandlerResolved
    \/ HandlerRejected
    \/ Tick

Spec == Init /\ [][Next]_vars

(* The same service on a stream that reports a stop order and the         *)
(* execution order the exchange creates when the stop order triggers.     *)
InitExecution ==
    /\ now = 0
    /\ AggregatorInit
    /\ orders = {StopOrder, ExecutionOrder}
    /\ OtherInit

SpecExecution == InitExecution /\ [][Next]_vars

(* The aggregator alone on the same stream, given events that carry the   *)
(* client order id of the stop order as originalClientOrderId, as the     *)
(* type OrderEvent allows and the service's toOrderEvent never does.      *)
LinkedEvent(order, shape) ==
    [OrderEvent(order, shape) EXCEPT !.originalClientOrderId = order.C]

DeliverLinked ==
    \E order \in orders : \E shape \in ShapesOf(order) : Deliver(LinkedEvent(order, shape))

NextLinked ==
    \/ DeliverLinked
    \/ Redeliver
    \/ TimerFire
    \/ SummaryResolved
    \/ HandlerResolved
    \/ HandlerRejected
    \/ Tick

SpecLinked == InitExecution /\ [][NextLinked]_vars

(* The same service on a stream that reports a time-window stop order.    *)
InitTimeWindow ==
    /\ now = 0
    /\ AggregatorInit
    /\ orders = {TimeWindowOrder}
    /\ OtherInit

SpecTimeWindow == InitTimeWindow /\ [][Next]_vars

(* The same service after the stream has reported the cancellation of a   *)
(* general order without fills and handleEvent has run on that event: the *)
(* event is marked processed and its key finalized.  The history of       *)
(* deliveries begins after that event.                                     *)
CanceledShape ==
    [status |-> "CANCELED", execType |-> "CANCELED", cumulativeQuantity |-> 0, lastQuantity |-> 0]

InitAfterCancel ==
    /\ now = 0
    /\ orders = {GeneralOrder}
    /\ OtherInit
    /\ delivered = EmptyBag
    /\ sinceFlush = EmptyMap
    /\ LET New == [store |-> EmptyMap,
                   timers |-> {},
                   processedEvents |-> EmptyMap,
                   finalizedContexts |-> EmptyMap,
                   stopPresentationCache |-> EmptyMap,
                   suppressedStopClientIds |-> {},
                   inflight |-> {},
                   notifications |-> <<>>,
                   summaryCalls |-> 0,
                   lastFinal |-> EmptyMap]
           S == HandleEvent(New, OrderEvent(GeneralOrder, CanceledShape), 1)
       IN /\ store = S.store
          /\ timers = S.timers
          /\ processedEvents = S.processedEvents
          /\ finalizedContexts = S.finalizedContexts
          /\ stopPresentationCache = S.stopPresentationCache
          /\ suppressedStopClientIds = S.suppressedStopClientIds
          /\ inflight = S.inflight
          /\ notifications = S.notifications
          /\ summaryCalls = S.summaryCalls
          /\ lastFinal = S.lastFinal

SpecAfterCancel == InitAfterCancel /\ [][Next]_vars

(* The same service with the signal handlers of setupGracefulShutdown.    *)
(* shutdown clears the keep-alive interval, closes the stream and awaits  *)
(* listenKeyClient.destroy, which catches its errors; process.exit(0)     *)
(* follows.  While destroy is awaited the event loop runs on.  No message *)
(* is taken to arrive once streamClient.close() was called.               *)
outsideShutdown ==
    <<now, aggregatorVars, providerVars, limiterVars, validationVars, engineVars, digestVars,
      fetcherVars, dispatcherVars>>

ShutdownSignal ==
    /\ phase = "running"
    /\ phase' = "stopping"
    /\ UNCHANGED outsideShutdown

(* listenKeyClient.destroy settles and process.exit(0) ends the process *)
DestroySettled ==
    /\ phase = "stopping"
    /\ phase' = "exited"
    /\ UNCHANGED outsideShutdown

StreamDelivers == phase = "running" /\ (DeliverFresh \/ Redeliver)

TimerFires == phase # "exited" /\ TimerFire

SummarySettles == phase # "exited" /\ SummaryResolved

HandlerSettles == phase # "exited" /\ (HandlerResolved \/ HandlerRejected)

ClockTicks == phase # "exited" /\ Tick

InitShutdown ==
    /\ now = 0
    /\ AggregatorInit
    /\ orders = {GeneralOrder}
    /\ OtherInit

NextShutdown ==
    \/ StreamDelivers
    \/ TimerFires
    \/ SummarySettles
    \/ HandlerSettles
    \/ ClockTicks
    \/ ShutdownSignal
    \/ DestroySettled

shutdownSpecVars == <<vars, phase>>

SpecShutdown == InitShutdown /\ [][NextShutdown]_shutdownSpecVars

-----------------------------------------------------------------------------
(* The account metrics provider and its callers.  Every action is one run *)
(* of the event loop: a call of getSummary up to its await, or the        *)
(* settling of fetchAccountContext with everything that follows from it   *)
(* before the loop takes up the next task.                                 *)

ProviderCommit(P) ==
    /\ providerCache' = P.cache
    /\ providerInflight' = P.inflight
    /\ fetching' = P.fetching
    /\ awaiting' = P.awaiting
    /\ returned' = P.returned

outsideProvider == <<aggregatorVars, limiterVars, validationVars, engineVars, digestVars,
    fetcherVars, dispatcherVars, shutdownVars>>

NextCaller == Len(returned) + Cardinality(awaiting) + 1

(* emitNotification, or any other client, calls getSummary *)
ProviderCall ==
    /\ NextCaller <= MaxCalls
    /\ ProviderCommit(GetSummary(Provider, NextCaller, now))
    /\ UNCHANGED <<now, outsideProvider>>

(* fetchAccountContext resolves with the account context *)
FetchResolved ==
    \E f \in fetching, balance \in Balances :
        /\ ProviderCommit(RefreshResolved(Provider, f.promise,
               [totalMarginBalance |-> balance, fetchedAt |-> f.fetchedAt], now))
        /\ UNCHANGED <<now, outsideProvider>>

(* fetchAccountContext rejects *)
FetchRejected ==
    \E f \in fetching :
        /\ ProviderCommit(RefreshRejected(Provider, f.promise, now))
        /\ UNCHANGED <<now, outsideProvider>>

ProviderTick ==
    /\ now + ProviderTickMs <= ProviderMaxNow
    /\ now' = now + ProviderTickMs
    /\ UNCHANGED <<providerVars, outsideProvider>>

InitProvider ==
    /\ now = 0
    /\ AggregatorInit
    /\ orders = {}
    /\ ProviderInit
    /\ LimiterNew(ServiceLimiterConfig)
    /\ ValidationNew
    /\ EngineNew
    /\ DigestNew
    /\ FetcherNew(NoOptions) /\ DispatcherNew /\ phase = "running"

NextProvider ==
    \/ ProviderCall
    \/ FetchResolved
    \/ FetchRejected
    \/ ProviderTick

providerSpecVars == <<now, providerVars>>

SpecProvider == InitProvider /\ [][NextProvider]_providerSpecVars

-----------------------------------------------------------------------------
(* What was delivered and what was notified, per context key *)

DeliveredEvents == BagToSet(delivered)

DeliveredKeys == {AggregationKey(e) : e \in DeliveredEvents}

EventsOf(K) == {e \in DeliveredEvents : AggregationKey(e) = K}

TimeoutScenarios == {Scenario.GENERAL_TIMEOUT, Scenario.SLTP_PARTIAL_TIMEOUT}

FilledScenarios ==
    {Scenario.GENERAL_SINGLE, Scenario.GENERAL_AGGREGATED,
     Scenario.SLTP_FILLED, Scenario.SLTP_PARTIAL_COMPLETED}

CanceledWithPartialScenarios ==
    {Scenario.GENERAL_PARTIAL_CANCELED, Scenario.SLTP_PARTIAL_CANCELED}

TerminalScenarios ==
    FilledScenarios \cup CanceledWithPartialScenarios \cup TimeoutScenarios

NotifiedAt(K, scenarios) ==
    {i \in DOMAIN notifications :
        notifications[i].key = K /\ notifications[i].scenario \in scenarios}

(* The events delivered for K are those of one order's life, each once:   *)
(* at most one NEW, first; partial fills of growing cumulative quantity;  *)
(* at most one final event, last, a cancellation carrying what was filled *)
WellFormed(K) ==
    LET ev == EventsOf(K)
        partials == {e \in ev : e.status = "PARTIALLY_FILLED"}
        filledSoFar == IF partials = {} THEN 0
                       ELSE CHOOSE q \in {e.cumulativeQuantity : e \in partials} :
                                \A e \in partials : e.cumulativeQuantity <= q
    IN
    /\ \A e \in ev : CopiesIn(e, delivered) = 1
    /\ Cardinality({e \in ev : e.status = "NEW"}) <= 1
    /\ Cardinality({e \in ev : IsFinalStatus(e.status)}) <= 1
    /\ \A e, f \in ev :
           /\ e.status = "NEW" /\ f # e => e.eventTime < f.eventTime
           /\ IsFinalStatus(e.status) /\ f # e => f.eventTime < e.eventTime
           /\ e \in partials /\ f \in partials /\ f # e =>
                  /\ e.cumulativeQuantity # f.cumulativeQuantity
                  /\ e.cumulativeQuantity < f.cumulativeQuantity => e.eventTime < f.eventTime
    /\ \A e \in ev : e.status \in {"CANCELED", "EXPIRED"} => e.cumulativeQuantity = filledSoFar

(* an emission for the event is still waiting for the account summary *)
AwaitingSummary(e) ==
    \E act \in inflight : act.kind = "event" /\ act.event = e /\ act.pc = "summary"

-----------------------------------------------------------------------------
(* C1, as stated: a well-formed sequence of events of one order yields    *)
(* never more than one terminal notification (fill, cancellation after a  *)
(* partial fill, or timeout).                                              *)
C1_ExactlyOneTerminal ==
    \A K \in DeliveredKeys :
        WellFormed(K) => Cardinality(NotifiedAt(K, TerminalScenarios)) <= 1

(* C1: for a well-formed sequence of events of one order there is at most *)
(* one notification for its final event, at most one timeout notification *)
(* per partial fill, and exactly one fill notification once the FILLED    *)
(* event's emission has passed the account summary. The total may be zero *)
(* or more than one.                                                       *)
C1_TerminalNotifications ==
    \A K \in DeliveredKeys :
        WellFormed(K) =>
            /\ Cardinality(NotifiedAt(K, FilledScenarios \cup CanceledWithPartialScenarios)) <= 1
            /\ Cardinality(NotifiedAt(K, TimeoutScenarios))
                   <= Cardinality({e \in EventsOf(K) : e.status = "PARTIALLY_FILLED"})
            /\ \A e \in EventsOf(K) :
                   e.status = "FILLED" /\ ~AwaitingSummary(e) =>
                       Cardinality(NotifiedAt(K, FilledScenarios)) = 1

(* a partial fill timed out, its flush completed, and the order's FILLED  *)
(* event then produced a second terminal notification                      *)
C1_Witness ==
    \E K \in DeliveredKeys :
        /\ WellFormed(K)
        /\ \E i \in NotifiedAt(K, TimeoutScenarios), j \in NotifiedAt(K, FilledScenarios) :
               /\ i < j
               /\ notifications[j].scenario \in {Scenario.GENERAL_SINGLE, Scenario.SLTP_FILLED}

-----------------------------------------------------------------------------
(* the events a notification reports *)
Reported(i) == {notifications[i].rawEvents[n] : n \in DOMAIN notifications[i].rawEvents}

(* C2, as stated: taking up an event that was delivered before, verbatim, *)
(* while its first processing is at most 60 s old sends no notification   *)
(* and starts no emission.                                                 *)
C2_ReplaySuppressed ==
    [][\A e \in DeliveredEvents :
           CopiesIn(e, delivered') > CopiesIn(e, delivered)
           /\ now - e.eventTime <= PROCESSED_EVENT_TTL_MS
           => notifications' = notifications /\ inflight' = inflight]_vars

(* C3, as stated: for a well-formed sequence of events of one order, no  *)
(* event is reported twice, once by the flush of the expired window and   *)
(* once by the notification of the FILLED or CANCELED event.               *)
C3_OneNotificationPerOutcome ==
    \A K \in DeliveredKeys :
        WellFormed(K) =>
            \A i \in NotifiedAt(K, TimeoutScenarios),
               j \in NotifiedAt(K, FilledScenarios \cup CanceledWithPartialScenarios) :
                Reported(i) \cap Reported(j) = {}

(* C4, as stated: while the processing of an event or a flush is waiting  *)
(* for its emission, no other event is taken up and no flush starts.      *)
C4_StrictlySerial ==
    [][inflight # {} =>
           /\ delivered' = delivered
           /\ {act.id : act \in inflight'} \subseteq {act.id : act \in inflight}]_vars

-----------------------------------------------------------------------------
LastReported(i) == notifications[i].rawEvents[Len(notifications[i].rawEvents)]

(* the events taken up by the step *)
Arriving == {e \in BagToSet(delivered') : CopiesIn(e, delivered') > CopiesIn(e, delivered)}

PendingFor(K) == {t \in timers : t.key = K}

(* the step sends nothing, starts no emission, creates no context for K   *)
(* and arms no deadline for K                                              *)
Dropped(K) ==
    /\ notifications' = notifications
    /\ inflight' = inflight
    /\ K \in DOMAIN store' => K \in DOMAIN store
    /\ {t \in timers' : t.key = K} \subseteq timers

(* C5, as stated: when a FILLED or CANCELED notification for K was sent   *)
(* for an event at most 60 s old, its processing is over and the context  *)
(* gone, every event bearing K that arrives is dropped.                    *)
C5_AllEventsDropped ==
    [][\A e \in Arriving :
           LET K == AggregationKey(e) IN
           /\ inflight = {}
           /\ K \notin DOMAIN store
           /\ \E i \in DOMAIN notifications :
                  /\ notifications[i].key = K
                  /\ LastReported(i).status \in {"FILLED", "CANCELED"}
                  /\ now - LastReported(i).eventTime <= FINALIZED_CONTEXT_TTL_MS
           => Dropped(K)]_vars

(* C5: when clearContext last cleared the context of K with a final-      *)
(* status event at most 60 s old, every arriving event bearing K with a   *)
(* final status is dropped: nothing is sent, no emission starts, and the  *)
(* tracker and the deadlines stay as they are.                             *)
C5_FinalEventsDropped ==
    [][\A e \in Arriving :
           LET K == AggregationKey(e) IN
           /\ IsFinalStatus(e.status)
           /\ K \in DOMAIN lastFinal
           /\ now - lastFinal[K] <= FINALIZED_CONTEXT_TTL_MS
           => /\ notifications' = notifications
              /\ inflight' = inflight
              /\ store' = store
              /\ timers' = timers]_vars

(* a FILLED event was delivered for a finalized key and left no trace:    *)
(* it is in no notification and in no emission under way                   *)
C5_Witness ==
    \E e \in DeliveredEvents :
        LET K == AggregationKey(e) IN
        /\ e.status = "FILLED"
        /\ K \in DOMAIN lastFinal
        /\ lastFinal[K] < e.eventTime
        /\ now - lastFinal[K] <= FINALIZED_CONTEXT_TTL_MS
        /\ \A i \in DOMAIN notifications : e \notin Reported(i)
        /\ \A act \in inflight : act.event # e

-----------------------------------------------------------------------------
(* C6: every context key has at most one pending deadline.                *)
C6_OnePendingDeadline ==
    \A K \in DeliveredKeys : Cardinality(PendingFor(K)) <= 1

(* a second partial fill re-armed the deadline of its context *)
C6_Witness ==
    \E K \in DOMAIN store :
        /\ Cardinality(PendingFor(K)) = 1
        /\ Cardinality({n \in DOMAIN store[K].events :
                            store[K].events[n].status = "PARTIALLY_FILLED"}) >= 2

-----------------------------------------------------------------------------
-----------------------------------------------------------------------------
(* the flushes that the step starts, and those that it ends *)
FlushesStarted ==
    {act \in inflight' : act.kind = "timer" /\ \A a \in inflight : a.id # act.id}

FlushesEnded ==
    {act \in inflight : act.kind = "timer" /\ \A a \in inflight' : a.id # act.id}

(* C8, as stated: a deadline that fires on an existing context starts one *)
(* emission with the pending timeout scenario from the context as the     *)
(* tracker holds it, and when that emission is over the context is gone.  *)
C8_FlushEmitsAndDestroys ==
    [][/\ \A t \in timers \ timers' :
              /\ now >= t.deadline
              /\ t.key \in DOMAIN store
              /\ delivered' = delivered
              /\ inflight \subseteq inflight'
              =>
                  \E act \in FlushesStarted :
                      /\ act.id = t.id
                      /\ act.context = store[t.key]
                      /\ act.scenario = t.scenario
                      /\ act.scenario \in TimeoutScenarios
       /\ \A act \in FlushesEnded : AggregationKey(act.event) \notin DOMAIN store']_vars

-----------------------------------------------------------------------------
(* C9: a context in the tracker holds only events that were delivered     *)
(* after the last completed timeout emission for its key, so that the     *)
(* next expiry reports none of the events already reported.                *)
C9_FreshContextAfterTimeout ==
    \A K \in DOMAIN store :
        \A n \in DOMAIN store[K].events : store[K].events[n] \in EventsSinceFlush(K)

(* a second window of the same order expired: two timeout notifications   *)
(* with no event in common, the second from a context created after the   *)
(* first emission had completed                                            *)
C9_Witness ==
    \E K \in DOMAIN store :
        /\ EventsSinceFlush(K) # EventsOf(K)
        /\ \E i, j \in NotifiedAt(K, TimeoutScenarios) :
               /\ i < j
               /\ Reported(i) \cap Reported(j) = {}
               /\ notifications[j].rawEvents = store[K].events

-----------------------------------------------------------------------------
AggregatedScenarios == {Scenario.GENERAL_AGGREGATED, Scenario.SLTP_PARTIAL_COMPLETED}

GeneralFilledScenarios == {Scenario.GENERAL_SINGLE, Scenario.GENERAL_AGGREGATED}

(* C10, as stated: for a well-formed sequence of events of one order, the *)
(* FILLED event is notified as aggregated exactly when a PARTIALLY_FILLED *)
(* event of the order was delivered before it.                             *)
C10_AggregatedIffEverPartial ==
    \A K \in DeliveredKeys :
        WellFormed(K) =>
            \A i \in NotifiedAt(K, FilledScenarios) :
                notifications[i].scenario \in AggregatedScenarios
                <=> \E e \in EventsOf(K) : e.status = "PARTIALLY_FILLED"

(* C10: a FILLED event is notified as GENERAL_AGGREGATED or               *)
(* SLTP_PARTIAL_COMPLETED exactly when its aggregation context, the       *)
(* events accumulated since the context was last cleared, holds a         *)
(* PARTIALLY_FILLED event, and else as GENERAL_SINGLE or SLTP_FILLED; the *)
(* general scenarios go to general orders, the SLTP ones to stop-like.    *)
C10_AggregatedIffPartialInContext ==
    /\ \A i \in DOMAIN notifications :
           notifications[i].scenario \in FilledScenarios =>
               /\ LastReported(i).status = "FILLED"
               /\ notifications[i].scenario \in AggregatedScenarios
                  <=> \E e \in Reported(i) : e.status = "PARTIALLY_FILLED"
               /\ notifications[i].scenario \in GeneralFilledScenarios
                  <=> ~IsStopLikeSource(notifications[i].source)
    /\ \A act \in inflight :
           act.kind = "event" /\ act.event.status = "FILLED" =>
               act.scenario \in FilledScenarios

(* both cases were notified: a FILLED event inside the window of a        *)
(* partial fill as aggregated, and a FILLED event after the partial       *)
(* fill's window had expired and been flushed as a single fill             *)
C10_Witness ==
    /\ \E i \in DOMAIN notifications :
           /\ notifications[i].scenario \in AggregatedScenarios
           /\ \E e \in Reported(i) : e.status = "PARTIALLY_FILLED"
    /\ \E K \in DeliveredKeys, i \in DOMAIN notifications :
           /\ notifications[i].key = K
           /\ notifications[i].scenario \in FilledScenarios \ AggregatedScenarios
           /\ \E e \in EventsOf(K) :
                  e.status = "PARTIALLY_FILLED" /\ e.eventTime < LastReported(i).eventTime

-----------------------------------------------------------------------------
(* The alert limiter and its caller *)

outsideLimiter == <<aggregatorVars, providerVars, validationVars, engineVars, digestVars,
    fetcherVars, dispatcherVars, shutdownVars>>

(* the caller passes the issues of one evaluation to process *)
LimiterProcess ==
    \E issues \in IssueLists(limiterConfig) :
        /\ processCalls < MaxProcessCalls
        /\ LET r == Process(limiterStates, issues, now,
                            MinCooldownMs(limiterConfig.minCooldownMinutes))
           IN /\ limiterStates' = r.states
              /\ limiterEvents' = r.events
        /\ limiterIssues' = issues
        /\ processCalls' = processCalls + 1
        /\ UNCHANGED <<now, limiterConfig, outsideLimiter>>

LimiterTick ==
    /\ now + LimiterTickMs <= LimiterMaxNow
    /\ now' = now + LimiterTickMs
    /\ UNCHANGED <<limiterVars, outsideLimiter>>

InitLimiter ==
    /\ now = 0
    /\ AggregatorInit
    /\ orders = {}
    /\ ProviderInit
    /\ \E config \in LimiterConfigs : LimiterNew(config)
    /\ ValidationNew
    /\ EngineNew
    /\ DigestNew
    /\ FetcherNew(NoOptions) /\ DispatcherNew /\ phase = "running"

NextLimiter ==
    \/ LimiterProcess
    \/ LimiterTick

limiterSpecVars == <<now, limiterVars>>

SpecLimiter == InitLimiter /\ [][NextLimiter]_limiterSpecVars

-----------------------------------------------------------------------------
(* The position validation service.  Every action is one run of the event *)
(* loop: the interval timer calls run, or an await of run settles.        *)

ValidationCommit(V) ==
    /\ running' = V.running
    /\ runs' = V.runs
    /\ sent' = V.sent
    /\ lastOutcome' = V.lastOutcome
    /\ limiterStates' = V.states
    /\ limiterEvents' = V.events
    /\ limiterIssues' = V.issues
    /\ processCalls' = V.calls

outsideValidation == <<limiterConfig, aggregatorVars, providerVars, engineVars, digestVars,
    fetcherVars, dispatcherVars, shutdownVars>>

(* schedulePositionValidation: the first execution, or the interval fires *)
ValidationTick ==
    /\ runCalls < MaxRunCalls
    /\ runCalls' = runCalls + 1
    /\ ValidationCommit(Run(Validation, runCalls + 1, now))
    /\ UNCHANGED <<now, outsideValidation>>

AccountFetched ==
    \E run \in runs :
        /\ run.pc = "fetch"
        /\ ValidationCommit(RunFetched(Validation, run))
        /\ UNCHANGED <<now, runCalls, outsideValidation>>

AccountFetchFailed ==
    \E run \in runs :
        /\ run.pc = "fetch"
        /\ ValidationCommit(RunFailed(Validation, run))
        /\ UNCHANGED <<now, runCalls, outsideValidation>>

(* fetchMetrics resolves (it catches its own errors) *)
MetricsFetched ==
    \E run \in runs, issues \in IssueLists(limiterConfig) :
        /\ run.pc = "metrics"
        /\ ValidationCommit(RunEvaluated(Validation, run, issues,
                                         MinCooldownMs(limiterConfig.minCooldownMinutes)))
        /\ UNCHANGED <<now, runCalls, outsideValidation>>

SendResolved ==
    \E run \in runs :
        /\ run.pc = "send"
        /\ ValidationCommit(RunSent(Validation, run))
        /\ UNCHANGED <<now, runCalls, outsideValidation>>

(* notifier.send gives up *)
SendRejected ==
    \E run \in runs :
        /\ run.pc = "send"
        /\ ValidationCommit(RunFailed(Validation, run))
        /\ UNCHANGED <<now, runCalls, outsideValidation>>

ValidationClock ==
    /\ now + LimiterTickMs <= LimiterMaxNow
    /\ now' = now + LimiterTickMs
    /\ UNCHANGED <<limiterVars, validationVars, aggregatorVars, providerVars, engineVars, digestVars,
                   fetcherVars, dispatcherVars, shutdownVars>>

(* the service builds its limiter with a floor, which exceeds the cooldown *)
(* of the rule                                                             *)
InitValidation ==
    /\ now = 0
    /\ AggregatorInit
    /\ orders = {}
    /\ ProviderInit
    /\ \E config \in LimiterConfigs :
           /\ config.minCooldownMinutes = MaxFloorMinutes
           /\ config.cooldownMinutes = MaxCooldownMinutes
           /\ LimiterNew(config)
    /\ ValidationNew
    /\ EngineNew
    /\ DigestNew
    /\ FetcherNew(NoOptions) /\ DispatcherNew /\ phase = "running"

NextValidation ==
    \/ ValidationTick
    \/ AccountFetched
    \/ AccountFetchFailed
    \/ MetricsFetched
    \/ SendResolved
    \/ SendRejected
    \/ ValidationClock

validationSpecVars == <<now, limiterVars, validationVars>>

SpecValidation == InitValidation /\ [][NextValidation]_validationSpecVars

-----------------------------------------------------------------------------
(* The rule engine, called again and again with one account context and   *)
(* one metrics map under one configuration                                 *)

EngineCommit(E) ==
    /\ positionRulesConfig' = E.config
    /\ accountContext' = E.context
    /\ symbolMetrics' = E.metrics
    /\ engineIssues' = E.issues

outsideEngine == <<now, aggregatorVars, providerVars, limiterVars, validationVars, digestVars,
    fetcherVars, dispatcherVars, shutdownVars>>

(* the caller calls evaluate(context, symbolMetrics) *)
EngineEvaluate ==
    /\ evaluations < MaxEvaluations
    /\ EngineCommit(Evaluate(Engine))
    /\ evaluations' = evaluations + 1
    /\ UNCHANGED outsideEngine

InitEngine ==
    /\ now = 0
    /\ AggregatorInit
    /\ orders = {}
    /\ ProviderInit
    /\ LimiterNew(ServiceLimiterConfig)
    /\ ValidationNew
    /\ DigestNew
    /\ FetcherNew(NoOptions) /\ DispatcherNew /\ phase = "running"
    /\ \E raw \in RawConfigs : positionRulesConfig = LoadPositionRules(raw)
    /\ accountContext \in AccountContexts
    /\ symbolMetrics \in SymbolMetricsMaps
    /\ engineIssues = <<>>
    /\ evaluations = 0

NextEngine == EngineEvaluate

engineSpecVars == <<engineVars>>

SpecEngine == InitEngine /\ [][NextEngine]_engineSpecVars

-----------------------------------------------------------------------------
(* The digest card of a list of alert events *)

(* an issue of each severity *)
DigestIssues ==
    {IssueOf(ServiceLimiterConfig, "ETH", "USDT"),
     [IssueOf(ServiceLimiterConfig, "ETH", "USDT") EXCEPT
          !.rule = "total_margin_usage", !.baseAsset = "__account__",
          !.direction = "global", !.severity = "critical"]}

(* the events process returns: a recovery is never a repeat *)
DigestAlertEvents ==
    {AlertEvent("alert", issue, repeat, 0, 0) : issue \in DigestIssues, repeat \in BOOLEAN}
    \cup {AlertEvent("recovery", issue, FALSE, 0, 0) : issue \in DigestIssues}

outsideDigest == <<now, aggregatorVars, providerVars, limiterVars, validationVars, engineVars,
    fetcherVars, dispatcherVars, shutdownVars>>

(* run builds the digest card of the events it got *)
BuildDigest ==
    /\ digestCards = <<>>
    /\ digestCards' = Append(digestCards, buildDigestCard(digestEvents, now))
    /\ UNCHANGED <<digestEvents, outsideDigest>>

(* run builds no card for an empty list of events *)
InitDigest ==
    /\ now = 0
    /\ AggregatorInit
    /\ orders = {}
    /\ ProviderInit
    /\ LimiterNew(ServiceLimiterConfig)
    /\ ValidationNew
    /\ EngineNew
    /\ FetcherNew(NoOptions) /\ DispatcherNew /\ phase = "running"
    /\ digestEvents \in UNION {[1..n -> DigestAlertEvents] : n \in 1..MaxDigestEvents}
    /\ digestCards = <<>>

NextDigest == BuildDigest

digestSpecVars == <<digestVars>>

SpecDigest == InitDigest /\ [][NextDigest]_digestSpecVars

-----------------------------------------------------------------------------
(* The symbol metrics fetcher.  Every action is one run of the event loop: *)
(* a call of fetchMetrics up to its first await, or the settling of one   *)
(* request with the rest of its task and the step of the worker that ran  *)
(* it.  fetchOpenInterest and fetchTokenInfo catch every error of their   *)
(* request, so a request that fails ends its task like one that succeeds. *)

Min(a, b) == IF a < b THEN a ELSE b

(* getCacheEntry finds an entry that has not expired *)
IsCached(cache, key, t) == key \in DOMAIN cache /\ cache[key] >= t

(* the cache after getCacheEntry was called for each of the symbols: it   *)
(* deletes the expired entry it meets                                     *)
CacheAfterLookups(cache, symbols, t) ==
    LET kept == {k \in DOMAIN cache :
                    ~(\E i \in 1..Len(symbols) : symbols[i] = k) \/ cache[k] >= t}
    IN [k \in kept |-> cache[k]]

(* the tasks a batch pushes: one per symbol without a cache entry *)
PendingTasks(cache, symbols, t) ==
    LET Missing(symbol) == ~IsCached(cache, symbol, t) IN SelectSeq(symbols, Missing)

(* a worker for every task *)
runWithoutLimit(tasks, concurrency, t) ==
    [tasks |-> tasks, index |-> Len(tasks), busy |-> 1..Len(tasks), timestamp |-> t]

(* runWithConcurrency up to the await of its workers: each of the         *)
(* min(concurrency, tasks.length) workers has taken a task and waits for  *)
(* its request                                                             *)
runWithConcurrency(tasks, concurrency, t) ==
    LET workers == Min(concurrency, Len(tasks)) IN
    [tasks |-> tasks, index |-> workers, busy |-> 1..workers, timestamp |-> t]

(* the worker whose task i has ended takes the next task or ends; the run *)
(* is over when the last worker has ended                                 *)
WorkerContinues(batch, i) ==
    IF batch.index < Len(batch.tasks)
    THEN [batch EXCEPT !.index = @ + 1, !.busy = (@ \ {i}) \cup {batch.index + 1}]
    ELSE IF batch.busy = {i} THEN NoBatch ELSE [batch EXCEPT !.busy = @ \ {i}]

outsideFetcher ==
    <<aggregatorVars, providerVars, limiterVars, validationVars, engineVars, digestVars,
      dispatcherVars, shutdownVars>>

(* PositionValidationService.run calls fetchMetrics(context.snapshots);   *)
(* its running flag keeps a second call from starting before the first    *)
(* has returned.  The symbols are those of the snapshots, each once.      *)
FetchMetrics ==
    /\ fetchCalls < MaxFetchCalls
    /\ oiBatch.busy = {}
    /\ tokenBatch.busy = {}
    /\ \E n \in 0..MaxSymbols :
           LET symbols == [i \in 1..n |-> i] IN
           /\ oiCache' = CacheAfterLookups(oiCache, symbols, now)
           /\ tokenCache' = CacheAfterLookups(tokenCache, symbols, now)
           /\ oiBatch' = runWithConcurrency(PendingTasks(oiCache, symbols, now),
                                            fetcherConcurrency, now)
           /\ tokenBatch' = runWithConcurrency(PendingTasks(tokenCache, symbols, now),
                                               fetcherConcurrency, now)
    /\ fetchCalls' = fetchCalls + 1
    /\ UNCHANGED <<now, fetcherConcurrency, outsideFetcher>>

(* the request of fetchOpenInterest(symbol) settles *)
OpenInterestSettled ==
    \E i \in oiBatch.busy :
        /\ oiCache' = Put(oiCache, oiBatch.tasks[i], oiBatch.timestamp + FETCHER_CACHE_TTL_MS)
        /\ oiBatch' = WorkerContinues(oiBatch, i)
        /\ UNCHANGED <<now, fetcherConcurrency, tokenCache, tokenBatch, fetchCalls,
                       outsideFetcher>>

(* the request of fetchTokenInfo(symbol) settles *)
TokenInfoSettled ==
    \E i \in tokenBatch.busy :
        /\ tokenCache' = Put(tokenCache, tokenBatch.tasks[i],
                             tokenBatch.timestamp + FETCHER_CACHE_TTL_MS)
        /\ tokenBatch' = WorkerContinues(tokenBatch, i)
        /\ UNCHANGED <<now, fetcherConcurrency, oiCache, oiBatch, fetchCalls,
                       outsideFetcher>>

FetcherTick ==
    /\ now + FetcherTickMs <= FetcherMaxNow
    /\ now' = now + FetcherTickMs
    /\ UNCHANGED <<fetcherVars, outsideFetcher>>

(* the fetcher of the service has no options; a caller may give a         *)
(* concurrency                                                             *)
FetcherOptions == {NoOptions, {0}, {2}}

InitFetcher ==
    /\ now = 0
    /\ AggregatorInit
    /\ orders = {}
    /\ ProviderInit
    /\ LimiterNew(ServiceLimiterConfig)
    /\ ValidationNew
    /\ EngineNew
    /\ DigestNew
    /\ DispatcherNew
    /\ phase = "running"
    /\ \E options \in FetcherOptions : FetcherNew(options)

NextFetcher ==
    \/ FetchMetrics
    \/ OpenInterestSettled
    \/ TokenInfoSettled
    \/ FetcherTick

fetcherSpecVars == <<now, fetcherVars>>

SpecFetcher == InitFetcher /\ [][NextFetcher]_fetcherSpecVars

-----------------------------------------------------------------------------
(* The order notification service.  handle reads and writes its state     *)
(* before its only await, the send of the card, so a call of handle is    *)
(* one action.                                                             *)

(* the statuses a raw message may carry; toOrderEvent copies o.X          *)
DispatcherStatuses ==
    {"NEW", "PARTIALLY_FILLED", "FILLED", "CANCELED", "EXPIRED", "EXPIRED_IN_MATCH", "filled"}

(* String.prototype.toUpperCase on the statuses of the model *)
StatusToUpperCase(status) == IF status = "filled" THEN "FILLED" ELSE status

NoStatus == "null"

normalizeStatusStrict(status) ==
    LET upper == StatusToUpperCase(status) IN
    IF upper \in {"NEW", "CANCELED", "FILLED", "EXPIRED"} THEN upper ELSE NoStatus

normalizeStatus(status) ==
    LET upper == StatusToUpperCase(status) IN
    IF upper \in {"NEW", "CANCELED", "FILLED"} THEN upper
    ELSE IF upper \in {"EXPIRED", "EXPIRED_IN_MATCH"} THEN "EXPIRED"
    ELSE NoStatus

isLifecycleStatus(status) == status \in {"NEW", "CANCELED", "EXPIRED"}

(* the fields buildDedupKey joins with ":" *)
buildDedupKey(event) ==
    <<event.orderId, event.clientOrderId, event.status, event.eventTime,
      event.cumulativeQuantity, event.lastQuantity>>

pruneAll(cache, t) == EmptyMap

prune(cache, t) ==
    LET live == {k \in DOMAIN cache : ~(t - cache[k] > dedupTtlMs)}
        kept == [k \in live |-> cache[k]]
    IN IF Cardinality(live) > dedupCacheLimit THEN EmptyMap ELSE kept

isDuplicate(cache, key, t) == key \in DOMAIN prune(cache, t)

markSeen(cache, key, t) == Put(cache, key, t)

(* the state of an OrderNotificationService *)
Dispatcher ==
    [dedupCache |-> dedupCache, lifecycleSent |-> lifecycleSent, fillSent |-> fillSent]

Handle(D, event, t) ==
    LET dedupKey == buildDedupKey(event)
        pruned == prune(D.dedupCache, t)
        normalizedStatus == normalizeStatus(event.status)
    IN IF isDuplicate(D.dedupCache, dedupKey, t)
       THEN [D EXCEPT !.dedupCache = pruned]
       ELSE LET D1 == [D EXCEPT !.dedupCache = markSeen(pruned, dedupKey, t)] IN
            IF normalizedStatus = NoStatus THEN D1
            ELSE IF isLifecycleStatus(normalizedStatus)
            THEN [D1 EXCEPT !.lifecycleSent = Append(@, event)]
            ELSE IF normalizedStatus = "FILLED"
            THEN [D1 EXCEPT !.fillSent = Append(@, event)]
            ELSE D1

outsideDispatcher ==
    <<aggregatorVars, providerVars, limiterVars, validationVars, engineVars, digestVars,
      fetcherVars, shutdownVars>>

(* streamClient.on('message') of the service calls handle(event) *)
DispatcherHandle(event) ==
    /\ BagCardinality(handled) < MaxHandled
    /\ LET D == Handle(Dispatcher, event, now) IN
       /\ dedupCache' = D.dedupCache
       /\ lifecycleSent' = D.lifecycleSent
       /\ fillSent' = D.fillSent
    /\ handled' = handled (+) SetToBag({event})
    /\ firstHandledAt' =
           IF buildDedupKey(event) \in DOMAIN firstHandledAt THEN firstHandledAt
           ELSE Put(firstHandledAt, buildDedupKey(event), now)
    /\ UNCHANGED <<now, outsideDispatcher>>

(* the stream delivers a message the exchange sends now *)
HandleFresh ==
    \E status \in DispatcherStatuses :
        DispatcherHandle([orderId |-> 1,
                          clientOrderId |-> GeneralClientId,
                          status |-> status,
                          eventTime |-> now,
                          cumulativeQuantity |-> IF status \in {"FILLED", "filled"} THEN 1 ELSE 0,
                          lastQuantity |-> IF status \in {"FILLED", "filled"} THEN 1 ELSE 0])

(* the stream delivers an earlier message again, verbatim *)
HandleAgain ==
    \E event \in BagToSet(handled) : DispatcherHandle(event)

DispatcherTick ==
    /\ now + DispatcherTickMs <= DispatcherMaxNow
    /\ now' = now + DispatcherTickMs
    /\ UNCHANGED <<dispatcherVars, outsideDispatcher>>

InitDispatcher ==
    /\ now = 0
    /\ AggregatorInit
    /\ orders = {}
    /\ ProviderInit
    /\ LimiterNew(ServiceLimiterConfig)
    /\ ValidationNew
    /\ EngineNew
    /\ DigestNew
    /\ FetcherNew(NoOptions)
    /\ phase = "running"
    /\ DispatcherNew

NextDispatcher ==
    \/ HandleFresh
    \/ HandleAgain
    \/ DispatcherTick

dispatcherSpecVars == <<now, dispatcherVars>>

SpecDispatcher == InitDispatcher /\ [][NextDispatcher]_dispatcherSpecVars

-----------------------------------------------------------------------------
(* Stop orders and their execution orders *)

(* the delivered events of the execution orders that stop order P created *)
ExecutionEventsOf(P) ==
    {c \in DeliveredEvents :
        \E o \in orders : /\ o.clientOrderId = c.clientOrderId
                          /\ o.C = P
                          /\ o.C # o.clientOrderId}

(* handleEvent has run to its end on every delivered copy of event c *)
Processed(c) == \A a \in inflight : a.event # c

(* the emissions the step starts *)
EmissionsStarted == {a \in inflight' : \A b \in inflight : b.id # a.id}

(* C11, as stated: once an event of an execution order created by stop    *)
(* order P has been processed, a FILLED event of P itself that arrives    *)
(* starts no emission, so that no notification is sent for it.            *)
C11_ParentFillSuppressed ==
    [][\A e \in Arriving :
          (/\ e.status = "FILLED"
           /\ \E c \in ExecutionEventsOf(e.clientOrderId) : Processed(c))
          => /\ notifications' = notifications
             /\ \A a \in EmissionsStarted : a.event # e]_vars

-----------------------------------------------------------------------------
(* The life of a context *)

(* the emissions whose activation ends with the step *)
EmissionsEnded == {a \in inflight : \A b \in inflight' : b.id # a.id}

(* C12, as stated: when handleEvent has run to its end on a FILLED,       *)
(* CANCELED or EXPIRED event, and when the emission started by a deadline *)
(* is over, the tracker holds no context for the order key.               *)
C12_NoContextAfterTerminal ==
    [][/\ \A e \in Arriving :
            (/\ e.status \in {"FILLED", "CANCELED", "EXPIRED"}
             /\ \A a \in EmissionsStarted : a.event # e)
            => AggregationKey(e) \notin DOMAIN store'
       /\ \A a \in EmissionsEnded :
            (a.kind = "timer" \/ a.event.status \in {"FILLED", "CANCELED", "EXPIRED"})
            => AggregationKey(a.event) \notin DOMAIN store']_vars

-----------------------------------------------------------------------------
(* The account metrics provider *)

(* C13: at most one fetchAccountContext is under way; every suspended     *)
(* getSummary call waits for the refresh that is in flight; and a call    *)
(* made while a refresh is in flight starts no fetch, returns nothing yet *)
(* and joins the calls that wait for it.                                   *)
C13_SingleFlight ==
    [][/\ Cardinality(fetching') <= 1
       /\ \A a \in awaiting' :
              a.promise = providerInflight' /\ \E f \in fetching' : f.promise = a.promise
       /\ (fetching # {} /\ NextCaller' > NextCaller)
          => /\ fetching' = fetching
             /\ returned' = returned
             /\ \E a \in awaiting' \ awaiting :
                    \E f \in fetching : f.promise = a.promise]_providerSpecVars

(* two calls wait for the one refresh in flight *)
C13_Witness == Cardinality(awaiting) >= 2 /\ Cardinality(fetching) = 1

(* C20: no getSummary call ends by throwing, and the calls that return    *)
(* when fetchAccountContext rejects return the cached summary if there is *)
(* one, however old, and null otherwise.                                   *)
C20_NeverThrows ==
    [][/\ \A i \in DOMAIN returned' : returned'[i].kind = "return"
       /\ (fetching' # fetching /\ fetching' \subseteq fetching
           /\ providerCache' = providerCache)
          => \A i \in (Len(returned) + 1)..Len(returned') :
                 returned'[i].value = IF providerCache.present
                                      THEN providerCache.summary
                                      ELSE NullSummary]_providerSpecVars

(* a call returned the cached summary when the cache was older than the   *)
(* TTL, which only a failed fetch brings about                             *)
C20_Witness ==
    \E i \in DOMAIN returned :
        /\ ~returned[i].value.isNull
        /\ providerCache.present
        /\ returned[i].value = providerCache.summary
        /\ returned[i].at - providerCache.cachedAt >= cacheTtlMs

-----------------------------------------------------------------------------
(* The alert limiter *)

(* the keys states holds a state for *)
Tracked(states) == {states[i].key : i \in DOMAIN states}

StateOf(states, key) == states[IndexOfKey(states, key)]

KeysOf(issues) == {defaultIssueKey(issues[i]) : i \in DOMAIN issues}

AllKeys == {defaultIssueKey(issue) : issue \in Issues(limiterConfig)}

(* the positions in events of the events of the type for the key *)
EventsFor(events, key, type) ==
    {i \in DOMAIN events : events[i].type = type /\ defaultIssueKey(events[i].issue) = key}

(* the step is a call of process *)
ProcessCalled == processCalls' = processCalls + 1

(* max(cooldownMinutes * 60 s, floor) of the limiter and its rule, in ms *)
EffectiveCooldown ==
    Max(limiterConfig.cooldownMinutes * 60 * 1000,
        limiterConfig.minCooldownMinutes * 60 * 1000)

(* C14: in a call of process at time now, for a key that has a state and  *)
(* is among the issues, an alert is emitted if and only if                *)
(* now - lastSentAt >= max(cooldownMinutes * 60 s, floor); every such     *)
(* alert has repeat = true and lastSentAt becomes now; otherwise nothing  *)
(* is emitted for the key and lastSentAt stays.                            *)
C14_RepeatAfterCooldown ==
    [][ProcessCalled =>
          \A K \in Tracked(limiterStates) \cap KeysOf(limiterIssues') :
              LET state == StateOf(limiterStates, K)
                  due == now - state.lastSentAt >= EffectiveCooldown
                  alerts == EventsFor(limiterEvents', K, "alert")
              IN /\ (alerts # {}) <=> due
                 /\ \A i \in alerts : limiterEvents'[i].repeat
                 /\ EventsFor(limiterEvents', K, "recovery") = {}
                 /\ K \in Tracked(limiterStates')
                 /\ StateOf(limiterStates', K).lastSentAt =
                        IF due THEN now ELSE state.lastSentAt]_limiterSpecVars

(* a repeated alert was emitted by a limiter whose floor exceeds the      *)
(* cooldown of the rule                                                    *)
C14_Witness ==
    /\ limiterConfig.minCooldownMinutes > limiterConfig.cooldownMinutes
    /\ \E i \in DOMAIN limiterEvents :
           limiterEvents[i].type = "alert" /\ limiterEvents[i].repeat

(* C15: in a call of process, a key that has a state and is not among the *)
(* issues gets exactly one recovery event if its notifyOnRecovery is set  *)
(* and none otherwise, and its state is dropped; a key that has no state  *)
(* and is not among the issues gets no recovery event.                     *)
C15_OneRecovery ==
    [][ProcessCalled =>
          /\ \A K \in Tracked(limiterStates) \ KeysOf(limiterIssues') :
                 /\ Cardinality(EventsFor(limiterEvents', K, "recovery")) =
                        IF StateOf(limiterStates, K).notifyOnRecovery THEN 1 ELSE 0
                 /\ EventsFor(limiterEvents', K, "alert") = {}
                 /\ K \notin Tracked(limiterStates')
          /\ \A K \in AllKeys \ (Tracked(limiterStates) \cup KeysOf(limiterIssues')) :
                 /\ EventsFor(limiterEvents', K, "recovery") = {}
                 /\ K \notin Tracked(limiterStates')]_limiterSpecVars

(* the last call emitted a recovery event and dropped the state *)
C15_Witness ==
    \E i \in DOMAIN limiterEvents :
        /\ limiterEvents[i].type = "recovery"
        /\ defaultIssueKey(limiterEvents[i].issue) \notin Tracked(limiterStates)

(* the number of the issues that bear the key *)
IssuesFor(issues, key) == Cardinality({i \in DOMAIN issues : defaultIssueKey(issues[i]) = key})

-----------------------------------------------------------------------------
(* The position validation service *)

(* the calls of run that the step begins: they await fetchAccountContext *)
RunsBegun == {run \in runs' : run.pc = "fetch" /\ \A r \in runs : r.id # run.id}

(* the calls of run with which the step is through *)
RunsEnded == {run \in runs : \A r \in runs' : r.id # run.id}

(* C17: at most one call of run is under way, and running tells whether   *)
(* one is; a call of run made while one is under way begins no fetch,     *)
(* evaluates nothing, leaves the limiter alone and sends nothing.          *)
C17_SingleRun ==
    [][/\ Cardinality(runs') <= 1
       /\ running' <=> runs' # {}
       /\ (runCalls' = runCalls + 1 /\ runs # {})
          => /\ runs' = runs
             /\ RunsBegun = {}
             /\ limiterVars' = limiterVars
             /\ sent' = sent
             /\ lastOutcome' = "skipped"]_validationSpecVars

(* a call of run was skipped while another awaited its fetch *)
C17_Witness ==
    /\ lastOutcome = "skipped"
    /\ \E run \in runs : run.pc = "fetch"

(* C18: the step in which run passes the issues to the limiter calls      *)
(* notifier.send once, with a card that holds every event the limiter     *)
(* returned, in order, when there is at least one event, and does not     *)
(* call it when there is none; no other step of the service calls it.      *)
C18_OneDigestPerTick ==
    [][IF processCalls' = processCalls + 1 /\ Len(limiterEvents') > 0
       THEN /\ Len(sent') = Len(sent) + 1
            /\ SubSeq(sent', 1, Len(sent)) = sent
            /\ LET card == sent'[Len(sent')] IN
               /\ card.count = Len(limiterEvents')
               /\ Len(card.events) = Len(limiterEvents')
               /\ \A i \in DOMAIN limiterEvents' :
                      /\ card.events[i].firstDetectedAt = limiterEvents'[i].firstDetectedAt
                      /\ card.events[i].repeat = limiterEvents'[i].repeat
                      /\ (card.events[i].statusLabel = "RECOVERED")
                             <=> (limiterEvents'[i].type = "recovery")
                      /\ card.events[i].scopeLabel[1] = limiterEvents'[i].issue.baseAsset
       ELSE sent' = sent]_validationSpecVars

(* a card with two events was sent *)
C18_Witness ==
    /\ Len(sent) > 0
    /\ Len(sent[Len(sent)].events) >= 2
    /\ Len(limiterEvents) >= 2

(* C19: when fetchAccountContext rejects, the call of run ends: nothing   *)
(* is evaluated, the limiter stays as it is, nothing is sent, running is  *)
(* reset and run returns, the error caught.                                *)
C19_FetchFailureEndsTick ==
    [][\A run \in RunsEnded :
          run.pc = "fetch"
          => /\ limiterVars' = limiterVars
             /\ sent' = sent
             /\ runs' = runs \ {run}
             /\ ~running'
             /\ lastOutcome' = "caught fetch error"]_validationSpecVars

(* a fetch failed after the limiter had come to hold a state: the run is  *)
(* over and the state is still there                                       *)
C19_Witness ==
    /\ runs = {}
    /\ ~running
    /\ lastOutcome = "caught fetch error"
    /\ Len(limiterStates) > 0

-----------------------------------------------------------------------------
(* The branches of handleEvent *)

(* the event has not been delivered before *)
FirstDelivery(e) == CopiesIn(e, delivered) = 0

(* the new notifications of the step that report context key K *)
NewNotifications(K) ==
    {i \in DOMAIN notifications' : i > Len(notifications) /\ notifications'[i].key = K}

(* C21, as stated: the NEW event of an order whose client order id has    *)
(* the prefix TW_ and whose type is neither MARKET nor LIMIT is handled   *)
(* by the stop-like branch: it is notified with scenario SLTP_NEW.        *)
C21_TimeWindowIsStopLike ==
    [][\A e \in Arriving :
          (/\ IsTimeWindowClientId(e.clientOrderId)
           /\ e.status = "NEW"
           /\ e.orderType \notin {"MARKET", "LIMIT"}
           /\ FirstDelivery(e))
          => \E i \in NewNotifications(AggregationKey(e)) :
                 notifications'[i].scenario = Scenario.SLTP_NEW]_vars

(* the event is one of an execution order the exchange created for a stop *)
(* order of the stream                                                     *)
IsExecutionEvent(e) ==
    \E o \in orders, parent \in orders :
        /\ o.orderId = e.orderId
        /\ o.clientOrderId = e.clientOrderId
        /\ o.C = parent.clientOrderId
        /\ o.C # o.clientOrderId
        /\ IsStopLikeSource(ResolveOrderPresentation(parent.clientOrderId).source)

(* C22: the NEW event of a MARKET or LIMIT execution order created by a   *)
(* triggered stop order sends no notification and starts no emission.     *)
C22_ChildCreationSilent ==
    [][\A e \in Arriving :
          (/\ IsExecutionEvent(e)
           /\ e.status = "NEW"
           /\ e.orderType \in {"MARKET", "LIMIT"})
          => /\ notifications' = notifications
             /\ EmissionsStarted = {}]_vars

(* the creation of the stop order was announced, the NEW event of its     *)
(* execution order came after it, and the announcement is still the only  *)
(* notification                                                            *)
C22_Witness ==
    \E c \in DeliveredEvents :
        /\ IsExecutionEvent(c)
        /\ c.status = "NEW"
        /\ inflight = {}
        /\ Len(notifications) = 1
        /\ notifications[1].scenario = Scenario.SLTP_NEW
        /\ LastReported(1).clientOrderId # c.clientOrderId
        /\ LastReported(1).eventTime < c.eventTime

(* the aggregator takes the event for one of a general order *)
IsGeneralEvent(e) == ResolvePresentation(stopPresentationCache, e).source = "OTHER"

(* C23: the NEW event of a general order sends no notification, starts no *)
(* emission, creates no context, arms no deadline and does not ask the    *)
(* account metrics provider.                                               *)
C23_GeneralCreationDropped ==
    [][\A e \in Arriving :
          (e.status = "NEW" /\ IsGeneralEvent(e))
          => /\ notifications' = notifications
             /\ inflight' = inflight
             /\ store' = store
             /\ timers' = timers
             /\ summaryCalls' = summaryCalls]_vars

(* the NEW event of a general order was processed and left nothing behind *)
C23_Witness ==
    \E e \in DeliveredEvents :
        /\ e.status = "NEW"
        /\ IsGeneralEvent(e)
        /\ BuildEventKey(e) \in DOMAIN processedEvents
        /\ store = EmptyMap
        /\ notifications = <<>>
        /\ inflight = {}
        /\ summaryCalls = 0

-----------------------------------------------------------------------------
(* The accumulators of a context *)

RECURSIVE SetToSeqByTime(_)
SetToSeqByTime(events) ==
    IF events = {} THEN <<>>
    ELSE LET first == CHOOSE e \in events :
                          \A f \in events :
                              \/ e.eventTime < f.eventTime
                              \/ /\ e.eventTime = f.eventTime
                                 /\ e.cumulativeQuantity <= f.cumulativeQuantity
         IN <<first>> \o SetToSeqByTime(events \ {first})

RECURSIVE SumOfFills(_)
SumOfFills(events) ==
    IF events = <<>> THEN 0
    ELSE Head(events).lastQuantity * Head(events).lastPrice + SumOfFills(Tail(events))

RECURSIVE SumOfQuantities(_)
SumOfQuantities(events) ==
    IF events = <<>> THEN 0
    ELSE Head(events).lastQuantity + SumOfQuantities(Tail(events))

(* the fills reported for K add up: each event's cumulative quantity is    *)
(* the sum of the last quantities delivered up to it                       *)
FillsAddUp(K) ==
    \A e \in EventsOf(K) :
        e.cumulativeQuantity > 0 =>
            e.cumulativeQuantity =
                SumOfQuantities(SetToSeqByTime({f \in EventsOf(K) : f.eventTime <= e.eventTime}))

(* C26, as stated: the cumulativeQuote of a notification for a well-      *)
(* formed order whose fills add up is the sum of lastQuantity x lastPrice *)
(* over the events the notification reports, at 8 decimals.                *)
C26_QuoteIsSumOfFills ==
    \A i \in DOMAIN notifications :
        LET n == notifications[i] IN
        (n.cumulativeQuote # NoQuote /\ WellFormed(n.key) /\ FillsAddUp(n.key))
        => n.cumulativeQuote = ToFixed(SumOfFills(n.rawEvents), QuoteFractionDigits)

(* C26: the cumulativeQuote of a notification is the average price times  *)
(* the cumulative quantity of the latest event it reports (last price,    *)
(* then order price, when the average price is zero), at 8 decimals; it   *)
(* is the sum of lastQuantity x lastPrice over the reported events when   *)
(* these hold every fill of the order.                                     *)
C26_QuoteOfLatestEvent ==
    \A i \in DOMAIN notifications :
        LET n == notifications[i] IN
        n.cumulativeQuote # NoQuote =>
            /\ n.cumulativeQuote = ToFixed(QuoteOf(LastReported(i)), QuoteFractionDigits)
            /\ SumOfQuantities(n.rawEvents) = LastReported(i).cumulativeQuantity
               => n.cumulativeQuote = ToFixed(SumOfFills(n.rawEvents), QuoteFractionDigits)

(* the fills of a well-formed order add up, a window expired and its      *)
(* flush cleared the context, and the notification of a later event       *)
(* carries the quote of the whole order, which the events it reports do   *)
(* not add up to                                                           *)
C26_Witness ==
    \E i \in DOMAIN notifications :
        LET n == notifications[i] IN
        /\ n.cumulativeQuote # NoQuote
        /\ WellFormed(n.key)
        /\ FillsAddUp(n.key)
        /\ n.cumulativeQuote = ToFixed(QuoteOf(LastReported(i)), QuoteFractionDigits)
        /\ n.cumulativeQuote # ToFixed(SumOfFills(n.rawEvents), QuoteFractionDigits)

-----------------------------------------------------------------------------
(* The calls of the account metrics provider *)

CarryingAggregates == {i \in DOMAIN notifications : notifications[i].cumulativeQuote # NoQuote}

AwaitingSummaries == {a \in inflight : a.pc = "summary"}

(* C27: getSummary has been called once for every notification that       *)
(* carries aggregates and once for every emission that is waiting for the *)
(* summary, and for nothing else: a step that starts no emission calls it *)
(* not, nor does the emission of SLTP_NEW or of SLTP_CANCELED, whose      *)
(* notifications carry no aggregates.                                      *)
C27_OneSummaryPerAggregate ==
    [][/\ summaryCalls' = Cardinality(CarryingAggregates') + Cardinality(AwaitingSummaries')
       /\ EmissionsStarted = {} => summaryCalls' = summaryCalls
       /\ \A a \in EmissionsStarted :
              a.scenario \in {Scenario.SLTP_NEW, Scenario.SLTP_CANCELED} =>
                  /\ summaryCalls' = summaryCalls
                  /\ a.pc = "handler"
       /\ \A i \in DOMAIN notifications' :
              notifications'[i].scenario \in {Scenario.SLTP_NEW, Scenario.SLTP_CANCELED} =>
                  i \notin CarryingAggregates']_vars

(* the creation of a stop order was notified without a call of getSummary *)
(* and its fill with one                                                   *)
C27_Witness ==
    /\ summaryCalls = 1
    /\ inflight = {}
    /\ Len(notifications) = 2
    /\ notifications[1].scenario = Scenario.SLTP_NEW
    /\ notifications[1].cumulativeQuote = NoQuote
    /\ notifications[2].scenario = Scenario.SLTP_FILLED
    /\ notifications[2].cumulativeQuote # NoQuote

-----------------------------------------------------------------------------
(* The rule engine *)

IssuesWith(rule, baseAsset) ==
    {i \in DOMAIN engineIssues :
        engineIssues[i].rule = rule /\ engineIssues[i].baseAsset = baseAsset}

(* C28: the evaluation of an account context whose totalMarginBalance is  *)
(* 0 returns a critical data_missing issue for __account__ and no         *)
(* total_margin_usage issue.                                               *)
C28_NoBalanceIsDataMissing ==
    (evaluations > 0 /\ accountContext.totalMarginBalance = 0) =>
        /\ \E i \in IssuesWith("data_missing", "__account__") :
               /\ engineIssues[i].severity = "critical"
               /\ engineIssues[i].direction = "global"
        /\ \A i \in DOMAIN engineIssues : engineIssues[i].rule # "total_margin_usage"

(* an account with positions on margin, no balance and a usage limit has  *)
(* been evaluated                                                          *)
C28_Witness ==
    /\ evaluations > 0
    /\ accountContext.totalMarginBalance = 0
    /\ aggregateInitialMargin(accountContext.snapshots) > 0
    /\ getTotalMarginUsageLimit(positionRulesConfig) # Null
    /\ Cardinality(IssuesWith("data_missing", "__account__")) = 1

-----------------------------------------------------------------------------
(* The digest card *)

IsAlertOf(event, severity) == event.type # "recovery" /\ event.issue.severity = severity

(* C30: the header of a digest card is green exactly if all its events    *)
(* are recoveries; otherwise it is red if an event that is no recovery is *)
(* critical, and else orange if one is a warning.                          *)
C30_DigestTemplate ==
    \A c \in DOMAIN digestCards :
        LET template == digestCards[c].template
            allRecovered == \A i \in DOMAIN digestEvents : digestEvents[i].type = "recovery"
            someCritical == \E i \in DOMAIN digestEvents : IsAlertOf(digestEvents[i], "critical")
            someWarning == \E i \in DOMAIN digestEvents : IsAlertOf(digestEvents[i], "warning")
        IN /\ template = "green" <=> allRecovered
           /\ (~ allRecovered /\ someCritical) => template = "red"
           /\ (~ allRecovered /\ ~ someCritical /\ someWarning) => template = "orange"

(* an orange card that reports the recovery of a critical issue *)
C30_Witness ==
    \E c \in DOMAIN digestCards :
        /\ digestCards[c].template = "orange"
        /\ \E i \in DOMAIN digestEvents :
               /\ digestEvents[i].type = "recovery"
               /\ digestEvents[i].issue.severity = "critical"

-----------------------------------------------------------------------------
(* The requests of the symbol metrics fetcher *)

RequestsInFlight == Cardinality(oiBatch.busy) + Cardinality(tokenBatch.busy)

(* C31, as stated: during a call of fetchMetrics at most `concurrency`    *)
(* per-symbol requests are in flight at any time.                         *)
C31_AtMostConcurrencyInFlight == RequestsInFlight <= fetcherConcurrency

(* C31: during a call of fetchMetrics at most `concurrency` open-interest *)
(* requests and at most `concurrency` token-info requests are in flight   *)
(* at any time, hence at most twice `concurrency` requests in all.        *)
C31_AtMostConcurrencyPerEndpoint ==
    /\ Cardinality(oiBatch.busy) <= fetcherConcurrency
    /\ Cardinality(tokenBatch.busy) <= fetcherConcurrency
    /\ RequestsInFlight <= 2 * fetcherConcurrency

(* the default five workers of each batch are busy and a task waits for   *)
(* a worker                                                                *)
C31_Witness ==
    /\ fetcherConcurrency = DEFAULT_CONCURRENCY
    /\ Cardinality(oiBatch.busy) = DEFAULT_CONCURRENCY
    /\ Cardinality(tokenBatch.busy) = DEFAULT_CONCURRENCY
    /\ oiBatch.index < Len(oiBatch.tasks)
    /\ tokenBatch.index < Len(tokenBatch.tasks)

-----------------------------------------------------------------------------
(* The sinks of the order notification service *)

(* the events a step passes to handle *)
Handling == {e \in BagToSet(handled') : CopiesIn(e, handled') > CopiesIn(e, handled)}

SendsOf(cards, e) == Cardinality({i \in 1..Len(cards) : cards[i] = e})

LifecycleSends(e) == SendsOf(lifecycleSent', e) - SendsOf(lifecycleSent, e)

FillSends(e) == SendsOf(fillSent', e) - SendsOf(fillSent, e)

(* the routing C32 states for an event *)
RoutedByStatus(e) ==
    /\ Len(lifecycleSent') + Len(fillSent') <= Len(lifecycleSent) + Len(fillSent) + 1
    /\ LifecycleSends(e) = 1
           <=> StatusToUpperCase(e.status) \in {"NEW", "CANCELED", "EXPIRED", "EXPIRED_IN_MATCH"}
    /\ FillSends(e) = 1 <=> StatusToUpperCase(e.status) = "FILLED"
    /\ LifecycleSends(e) \in {0, 1}
    /\ FillSends(e) \in {0, 1}

(* C32, as stated: each event passed to handle causes at most one send,   *)
(* to the lifecycle sink iff its normalized status is NEW, CANCELED or    *)
(* EXPIRED, to the fill sink iff it is FILLED.                            *)
C32_EveryEventRouted ==
    [][\A e \in Handling : RoutedByStatus(e)]_dispatcherSpecVars

(* C32: each event passed to handle that is not ignored as a duplicate    *)
(* causes at most one send, to the lifecycle sink iff its normalized      *)
(* status is NEW, CANCELED or EXPIRED, to the fill sink iff it is FILLED; *)
(* an event ignored as a duplicate causes no send.                        *)
C32_FirstHandlingRouted ==
    [][\A e \in Handling :
          IF buildDedupKey(e) \in DOMAIN dedupCache
             /\ now - dedupCache[buildDedupKey(e)] <= dedupTtlMs
          THEN lifecycleSent' = lifecycleSent /\ fillSent' = fillSent
          ELSE RoutedByStatus(e)]_dispatcherSpecVars

(* an event of each kind has been handled: one went to the lifecycle      *)
(* sink as EXPIRED_IN_MATCH, one to the fill sink, one to neither         *)
C32_Witness ==
    /\ \E i \in 1..Len(lifecycleSent) : lifecycleSent[i].status = "EXPIRED_IN_MATCH"
    /\ Len(fillSent) = 1
    /\ \E e \in BagToSet(handled) : e.status = "PARTIALLY_FILLED"
    /\ Len(lifecycleSent) = 1

-----------------------------------------------------------------------------
(* Shutdown *)

(* C34, as stated: once a shutdown signal has arrived no aggregation      *)
(* deadline fires and no timeout notification is handed to the            *)
(* notification handler.                                                   *)
C34_NoTimeoutAfterShutdown ==
    [][phase # "running"
          => /\ \A a \in EmissionsStarted : a.kind # "timer"
             /\ \A i \in (Len(notifications) + 1)..Len(notifications') :
                    notifications'[i].scenario \notin TimeoutScenarios]_shutdownSpecVars

-----------------------------------------------------------------------------
(* The presentation of an execution order *)

(* C35, as stated: an event of an execution order whose own client order  *)
(* id has no recognised prefix, arriving after an event of its stop order *)
(* was delivered, is handled with the presentation of the stop order:     *)
(* the emission it starts and the context it leaves carry the source of   *)
(* the stop order.                                                         *)
C35_ChildInheritsPresentation ==
    [][\A e \in Arriving : \A o \in orders :
          LET K == AggregationKey(e)
              parent == ResolveOrderPresentation(o.C)
          IN (/\ o.orderId = e.orderId
              /\ o.clientOrderId = e.clientOrderId
              /\ o.C # NoClientId
              /\ ResolveOrderPresentation(e.clientOrderId).source = "OTHER"
              /\ \E p \in DeliveredEvents : p.clientOrderId = o.C)
             => /\ \A a \in EmissionsStarted :
                       a.event = e => a.context.source = parent.source
                /\ (K \in DOMAIN store' /\ LastEvent(store'[K]) = e)
                       => store'[K].source = parent.source]_vars

-----------------------------------------------------------------------------
(* Redelivery after a failed emission *)

Occurrences(events, e) == Cardinality({i \in 1..Len(events) : events[i] = e})

(* handleEvent's catch has run for e: the event is in the context of its  *)
(* order, no invocation for it is suspended and, although it is not older *)
(* than the dedupe TTL, it is not marked processed                         *)
EmissionFailed(e) ==
    LET K == AggregationKey(e) IN
    /\ K \in DOMAIN store
    /\ Occurrences(store[K].events, e) = 1
    /\ \A a \in inflight : a.event # e
    /\ BuildEventKey(e) \notin DOMAIN processedEvents
    /\ now - e.eventTime <= PROCESSED_EVENT_TTL_MS

(* C36, as stated: when the notification handler threw while event e was  *)
(* being emitted, a redelivery of e starts an emission again, and the     *)
(* notification it builds holds e once in its event history and counts    *)
(* the realized profit of e once.                                          *)
C36_RetryCountsEventOnce ==
    [][\A e \in Arriving :
          EmissionFailed(e)
          => /\ \E a \in EmissionsStarted : a.event = e
             /\ \A a \in EmissionsStarted :
                    LET payload == Payload(a.context, a.scenario, a.options) IN
                    a.event = e
                    => /\ Occurrences(payload.rawEvents, e) = 1
                       /\ payload.tradePnl \in {NoQuote, SumRealizedPnlOf(store[AggregationKey(e)].events)}]_vars

(* Issue identities within one evaluation *)

(* C37, as stated: the issues one call of evaluate returns have pairwise  *)
(* distinct (rule, baseAsset, direction) identities.                       *)
C37_IssueKeysDistinct ==
    \A i, j \in DOMAIN engineIssues :
        defaultIssueKey(engineIssues[i]) = defaultIssueKey(engineIssues[j]) => i = j

(* The in-progress flag of the validation service *)

(* C38: a call of run that ends, whether its digest was sent, the limiter *)
(* returned no event or an await rejected, leaves running false, and a    *)
(* call of run is skipped only while another call is still suspended at   *)
(* an await.                                                               *)
C38_FlagClearedWhenRunEnds ==
    [][/\ RunsEnded # {} => ~running'
       /\ (runCalls' = runCalls + 1 /\ RunsBegun = {}) => runs # {}]_validationSpecVars

(* the send of one run was rejected and the next call of run has begun    *)
(* its fetch                                                               *)
C38_Witness ==
    /\ lastOutcome = "caught send error"
    /\ running
    /\ \E run \in runs : run.id = runCalls /\ run.pc = "fetch"

(* A digest that could not be sent *)

(* the keys of the alerts among events *)
AlertedKeys(events) ==
    {defaultIssueKey(events[i].issue) : i \in {j \in DOMAIN events : events[j].type = "alert"}}

(* C39, as stated: when the send of the last digest was rejected, the     *)
(* call of process of the next, later run returns an alert for every      *)
(* issue of that digest that is still among its issues.                    *)
C39_FailedDigestAlertedAgain ==
    [][(/\ processCalls' = processCalls + 1
        /\ lastOutcome = "caught send error"
        /\ \A run \in runs : sent[Len(sent)].triggeredAt < run.fetchedAt)
       => \A key \in AlertedKeys(limiterEvents) :
              (\E i \in DOMAIN limiterIssues' : defaultIssueKey(limiterIssues'[i]) = key)
              => key \in AlertedKeys(limiterEvents')]_validationSpecVars

(* The events of one call of process for one key *)

(* the positions in events of the events, of either type, for the key *)
EventsOfKey(events, key) == {i \in DOMAIN events : defaultIssueKey(events[i].issue) = key}

(* C40, as stated: the events a call of process returns hold at most one  *)
(* event for a key.                                                        *)
C40_AtMostOneEventPerKey ==
    [][ProcessCalled =>
          \A K \in AllKeys : Cardinality(EventsOfKey(limiterEvents', K)) <= 1]_limiterSpecVars

(* C40, amended: when the effective cooldown is positive, the events a    *)
(* call of process returns hold at most one event for a key, however many *)
(* of its issues bear the key; when it is 0, they hold at most one event  *)
(* for a key that is not among the issues and at most one for each issue  *)
(* that bears the key.                                                     *)
C40_OneEventPerKeyUnderCooldown ==
    [][ProcessCalled =>
          \A K \in AllKeys :
              Cardinality(EventsOfKey(limiterEvents', K))
                  <= IF EffectiveCooldown = 0
                     THEN Max(1, IssuesFor(limiterIssues', K))
                     ELSE 1]_limiterSpecVars

(* under a positive cooldown the last call had two issues of one key and  *)
(* returned one alert for it                                               *)
C40_Witness ==
    /\ EffectiveCooldown > 0
    /\ \E K \in AllKeys :
           /\ IssuesFor(limiterIssues, K) = 2
           /\ Cardinality(EventsOfKey(limiterEvents, K)) = 1
           /\ EventsFor(limiterEvents, K, "alert") # {}

====
